---- MODULE Spec2Model ----
(***************************************************************************)
(* nwatch: the file-event-to-client-broadcast pipeline.                    *)
(*                                                                         *)
(* Threads of the program:                                                 *)
(*   - the watchdog observer thread, which runs the on_created /           *)
(*     on_modified / on_deleted handlers of _DebouncedEventHandler;        *)
(*   - one threading.Timer thread per scheduled debounce timer, which runs *)
(*     fire_callback and, inside it, StepService._handle_file_event and    *)
(*     main.on_file_change;                                                *)
(*   - the asyncio event loop thread, which runs websocket_endpoint and    *)
(*     handle_step_update / ConnectionManager.broadcast coroutines, one    *)
(*     step (from one await to the next) at a time.                        *)
(* Every access to state shared between threads is a step of its own.      *)
(***************************************************************************)
EXTENDS Integers, Sequences, FiniteSets, TLC

(***************************************************************************)
(* Bounds of the model                                                     *)
(***************************************************************************)
\* raw notifications the observer delivers in a run of SpecRace
MaxTimers == 3
MaxStem == 6
RepoFiles == 2
\* settled file changes in a run of SpecPipe
MaxChanges == 3
\* settled file changes and client connections in a run of Spec
MaxSettled == 1
MaxClients == 1
\* calls of on_file_change and client connections in a run of SpecHub
MaxIssued == 1
HubClients == 2
\* calls of on_file_change and client connections in a run of SpecFanout
FanoutIssued == 2
FanoutClients == 3
\* raw notifications in a run of SpecLife
LifeTimers == 2
CallTimers == 2
ViewClients == 2
MaxConnections == 3
SnapshotClients == 2
SnapshotIssued == 1
MaxId == 5
BurstTimers == 3
FilterTimers == 2
MaxEvents == 2
RestartTimers == 1
ChannelClients == 1
ChannelIssued == 2
KeyEvents == 1
SettleChanges == 2

\* _DebouncedEventHandler.debounce_delay (0.1 s), in ticks of 50 ms
DebounceDelay == 2

(***************************************************************************)
(* Domain: Step, StepStatus, FileEventType                                 *)
(***************************************************************************)
CREATED == "created"
MODIFIED == "modified"
DELETED == "deleted"
FileEventType == {CREATED, MODIFIED, DELETED}

StepStatus == {"pending", "in_progress", "completed", "failed", "skipped"}

\* the statuses the modelled folder uses
FileStatuses == {"pending", "completed"}

\* Python's None, for a Step-valued variable
None == [task_id |-> "None", status |-> "None"]

\* on-disk states of a file that is no step: missing, or not decodable JSON
Absent == [task_id |-> "absent", status |-> "absent"]
Malformed == [task_id |-> "malformed", status |-> "malformed"]

\* the characters of a string the model uses as a path or a task id
Chars(s) ==
    CASE s = "/w/01-01.json" -> <<"/", "w", "/", "0", "1", "-", "0", "1", ".", "j", "s", "o", "n">>
      [] s = "/w/01-02.json" -> <<"/", "w", "/", "0", "1", "-", "0", "2", ".", "j", "s", "o", "n">>
      [] s = "/w/sub.json" -> <<"/", "w", "/", "s", "u", "b", ".", "j", "s", "o", "n">>
      [] s = "/w/sub" -> <<"/", "w", "/", "s", "u", "b">>
      [] s = "/w/notes.txt" -> <<"/", "w", "/", "n", "o", "t", "e", "s", ".", "t", "x", "t">>
      [] s = "/w/.json" -> <<"/", "w", "/", ".", "j", "s", "o", "n">>
      [] s = "/w/01-01.json.bak" -> <<"/", "w", "/", "0", "1", "-", "0", "1", ".", "j", "s", "o", "n",
                                      ".", "b", "a", "k">>
      [] s = "01-01" -> <<"0", "1", "-", "0", "1">>
      [] s = "01-02" -> <<"0", "1", "-", "0", "2">>
      [] OTHER -> <<>>

Paths == {"/w/01-01.json", "/w/01-02.json"}
TaskIds == {"01-01", "01-02"}

Digits == {"0", "1", "2", "3", "4", "5", "6", "7", "8", "9"}

\* os.path.basename: what follows the last "/"
RECURSIVE basename(_)
basename(cs) ==
    IF \E i \in 1..Len(cs) : cs[i] = "/"
    THEN basename(Tail(cs))
    ELSE cs

\* str.endswith(".json")
EndsWithJson(cs) ==
    /\ Len(cs) >= 5
    /\ SubSeq(cs, Len(cs) - 4, Len(cs)) = <<".", "j", "s", "o", "n">>

\* re.match(r"^\d{2}-\d{2}$", filename): two digits, a hyphen, two digits, and
\* then the end of the string; "$" also matches just before a newline that is
\* the last character of the string
MatchesTaskId(cs) ==
    /\ \/ Len(cs) = 5
       \/ Len(cs) = 6 /\ cs[6] = "\n"
    /\ cs[1] \in Digits /\ cs[2] \in Digits
    /\ cs[3] = "-"
    /\ cs[4] \in Digits /\ cs[5] \in Digits

\* StepService._extract_task_id_from_path on the characters of a path: the
\* filename without one ".json" when the pattern matches it, <<>> for None
extract_from_chars(cs) ==
    LET filename == basename(cs)
        stem == IF EndsWithJson(filename)
                THEN SubSeq(filename, 1, Len(filename) - 5)
                ELSE filename
    IN  IF MatchesTaskId(stem) THEN stem ELSE <<>>

\* StepService._extract_task_id_from_path; "None" when the name is no task id
extract_task_id_from_path(file_path) ==
    LET task_id == extract_from_chars(Chars(file_path))
    IN  IF \E t \in TaskIds : Chars(t) = task_id
        THEN CHOOSE t \in TaskIds : Chars(t) = task_id
        ELSE "None"

\* Step._parse_version_from_task_id succeeds: two integers joined by one "-"
ValidTaskId(task_id) ==
    LET cs == Chars(task_id)
    IN  /\ Len(cs) >= 3
        /\ Cardinality({i \in 1..Len(cs) : cs[i] = "-"}) = 1
        /\ cs[1] # "-" /\ cs[Len(cs)] # "-"
        /\ \A i \in 1..Len(cs) : cs[i] \in Digits \cup {"-"}

\* JsonFileRepository._read_step_file on the content of a file glob has listed,
\* which is undecodable or an object with all the fields: the Step, or None
read_step_file(content) ==
    IF content = Absent \/ content = Malformed THEN None
    ELSE IF content.status \notin StepStatus THEN None
    ELSE IF ~ValidTaskId(content.task_id) THEN None
    ELSE content

get_all_fails_wholesale(fs) ==
    IF \E p \in Paths : fs[p] = Malformed THEN {}
    ELSE {read_step_file(fs[p]) : p \in {q \in Paths : fs[q] # Absent}} \ {None}

\* JsonFileRepository.get_all: the steps of the files that parse
get_all(fs) ==
    {read_step_file(fs[p]) : p \in {q \in Paths : fs[q] # Absent}} \ {None}

\* a refresh that reads the file named after the task id
refresh_by_name(fs, task_id) ==
    {read_step_file(fs[p]) : p \in {q \in Paths : extract_task_id_from_path(q) = task_id}}

\* JsonFileRepository.get_by_id / refresh: the results a scan for task_id can give
\* (glob's order is not specified, so any file holding that task_id may be first)
refresh(fs, task_id) ==
    LET found == {s \in get_all(fs) : s.task_id = task_id}
    IN  IF found = {} THEN {None} ELSE found

\* StepService._load_steps_into_cache: {step.task_id: step for step in steps};
\* of two steps with one task_id the later in glob's order stays
load_steps(steps) ==
    {c \in [TaskIds -> steps \cup {None}] :
        \A t \in TaskIds :
            IF \E s \in steps : s.task_id = t
            THEN c[t] # None /\ c[t].task_id = t
            ELSE c[t] = None}

(***************************************************************************)
(* State                                                                   *)
(***************************************************************************)
VARIABLES
    files,               \* the watched folder: path -> content
    folder,              \* what is at the watched folder's path: "dir", "missing", "file"
    examined,            \* a function called on its own, outside the threads: its argument
                         \* and, once it is done, what it returned
    obs,                 \* the observer thread: where it is in a handler
    pending_timers,      \* _DebouncedEventHandler._pending_timers: path -> timer (0: no entry)
    timers,              \* the Timer threads ever created, by number
    steps_cache,         \* StepService._steps_cache: task_id -> Step (None: no entry)
    watching,            \* StepService._watching
    api,                 \* the last call of start_watching / stop_watching, what it raised,
                         \* and whether an odd number of calls has been made
    stop,                \* the main thread inside stop_watching: where it is
    loop_queue,          \* coroutines handed to the loop by run_coroutine_threadsafe
    active_connections,  \* ConnectionManager._active_connections
    ws,                  \* the websocket_endpoint coroutine of every client
    passes,              \* the handle_step_update coroutines that reached broadcast
    sent                 \* per client: the send_text calls made on it, in order

fsVars == <<files, folder, examined>>
debVars == <<obs, pending_timers, timers>>
runVars == <<watching, api, stop>>
svcVars == <<steps_cache, watching, api, stop>>
hubVars == <<active_connections, ws, passes, sent>>
vars == <<files, folder, examined, obs, pending_timers, timers, steps_cache, watching, api, stop,
          loop_queue, active_connections, ws, passes, sent>>

\* timers that exist as threads
TimerIds == 1..Len(timers)
Clients == 1..Len(ws)
PassIds == 1..Len(passes)

\* where a Timer thread can be
\*   waiting      Timer.run, in finished.wait(interval)
\*   cancelled    cancel() came during the wait: the function is never called
\*   fire_check   fire_callback, line 81
\*   fire_del     fire_callback, line 82
\*   callback     fire_callback, lines 83-85
\*   h_pop        _handle_file_event, line 159
\*   h_refresh    _handle_file_event, line 163
\*   h_store      _handle_file_event, line 165
\*   h_notify     _handle_file_event, lines 175-176
\*   done         the thread has ended
\*   crashed      the thread has ended with an uncaught exception
HandlerPcs == {"h_pop", "h_refresh", "h_store", "h_notify"}
RunningPcs == {"fire_check", "fire_del", "callback"} \cup HandlerPcs

IdleObserver == [pc |-> "idle", path |-> "", kind |-> "", burst |-> 0]

\* the folder a run can start from: every file missing, not decodable, or a step
\* file named after its task_id
InitialFolders ==
    {f \in [Paths -> {Absent, Malformed} \cup [task_id : TaskIds, status : FileStatuses]] :
        \A p \in Paths :
            f[p] \notin {Absent, Malformed} => f[p].task_id = extract_task_id_from_path(p)}

\* the folders a run with clients starts from: empty, or one step file
HubFolders ==
    {f \in InitialFolders :
        /\ f["/w/01-02.json"] = Absent
        /\ f["/w/01-01.json"] # Absent => f["/w/01-01.json"].status = "pending"}

\* no call of start_watching / stop_watching yet; the main thread outside stop
NoCall == [call |-> "none", raised |-> "none", odd |-> FALSE]
NotStopping == [pc |-> "idle", pending |-> {}]

\* no function is called on its own
NoExamination == [fn |-> "none", arg |-> <<>>, ret |-> <<>>, done |-> FALSE]

\* a call of start_watching / stop_watching is made and raises what it raises
Called(call, raised) == [call |-> call, raised |-> raised, odd |-> ~api.odd]

\* an empty folder, and what can be at the watched path
EmptyFolder == [p \in Paths |-> Absent]
FolderKinds == {"dir", "missing", "file"}

\* the state after construction (main.py 32-34, StepService.__init__,
\* WatchdogFileWatcher.__init__, ConnectionManager.__init__), the watched
\* path being of one of kinds and the folder, when it is one, one of folders
Service(kinds, folders) ==
    /\ folder \in kinds
    /\ files \in IF folder = "dir" THEN folders ELSE {EmptyFolder}
    /\ obs = IdleObserver
    /\ pending_timers = [p \in Paths |-> 0]
    /\ timers = <<>>
    /\ steps_cache = [t \in TaskIds |-> None]
    /\ watching = FALSE
    /\ api = NoCall
    /\ stop = NotStopping
    /\ loop_queue = <<>>
    /\ active_connections = <<>>
    /\ ws = <<>>
    /\ passes = <<>>
    /\ sent = <<>>

Built(kinds, folders) == Service(kinds, folders) /\ examined = NoExamination

\* the same with the watched folder in place
Constructed(folders) ==
    /\ files \in folders
    /\ folder = "dir"
    /\ examined = NoExamination
    /\ api = NoCall
    /\ stop = NotStopping
    /\ obs = IdleObserver
    /\ pending_timers = [p \in Paths |-> 0]
    /\ timers = <<>>
    /\ steps_cache = [t \in TaskIds |-> None]
    /\ watching = FALSE
    /\ loop_queue = <<>>
    /\ active_connections = <<>>
    /\ ws = <<>>
    /\ passes = <<>>
    /\ sent = <<>>

Init == Constructed(InitialFolders)

(***************************************************************************)
(* StepService.start_watching, as lifespan calls it at startup             *)
(***************************************************************************)
\* the cache is empty when it holds no entry
CacheIsEmpty(c) == \A t \in TaskIds : c[t] = None

\* every Timer thread has ended and the observer thread is in no handler: nothing
\* of an earlier _DebouncedEventHandler is still running
HandlerQuiet ==
    /\ obs.pc \in {"idle", "crashed"}
    /\ \A t \in TimerIds : timers[t].pc \in {"done", "cancelled", "crashed"}

StartError_ignored == "none"

\* WatchdogFileWatcher.start, lines 202-206: what it raises for the watched path
StartError ==
    IF folder = "missing" THEN "FileNotFoundError"
    ELSE IF folder = "file" THEN "NotADirectoryError"
    ELSE "none"

\* StepService.start_watching when not watching, lines 106-115: the cache is
\* loaded if it is empty and the callback set; then WatchdogFileWatcher.start
\* raises, or makes a new handler (with no pending timer) and a new observer
\* thread, and the service is watching. The model starts a new handler only when
\* nothing of an earlier one is still running
start_watching ==
    /\ ~watching
    /\ stop.pc = "idle"
    /\ HandlerQuiet
    /\ \E c \in load_steps(get_all(files)) :
          steps_cache' = IF CacheIsEmpty(steps_cache) THEN c ELSE steps_cache
    /\ api' = Called("start_watching", StartError)
    /\ watching' = (StartError = "none")
    /\ IF StartError = "none"
       THEN obs' = IdleObserver /\ pending_timers' = [p \in Paths |-> 0]
       ELSE UNCHANGED <<obs, pending_timers>>
    /\ UNCHANGED <<fsVars, timers, stop, loop_queue, hubVars>>

start_watching_restarts ==
    /\ watching
    /\ stop.pc = "idle"
    /\ api' = Called("start_watching", "none")
    /\ obs' = IdleObserver
    /\ pending_timers' = [p \in Paths |-> 0]
    /\ UNCHANGED <<fsVars, timers, steps_cache, watching, stop, loop_queue, hubVars>>

\* StepService.start_watching when watching, lines 106-107: RuntimeError
start_watching_rejected ==
    /\ watching
    /\ stop.pc = "idle"
    /\ api' = Called("start_watching", "RuntimeError")
    /\ UNCHANGED <<fsVars, debVars, steps_cache, watching, stop, loop_queue, hubVars>>

(***************************************************************************)
(* _DebouncedEventHandler on the observer thread                           *)
(***************************************************************************)
\* a notification continues the burst of the path's last notification when it
\* comes less than the quiet period after it: that one's timer is still waiting
LastTimerOf(ts, p) ==
    LET mine == {t \in 1..Len(ts) : ts[t].path = p}
    IN  IF mine = {} THEN 0 ELSE CHOOSE t \in mine : \A u \in mine : u <= t

BurstOf(ts, p) ==
    LET last == LastTimerOf(ts, p)
    IN  IF last # 0 /\ ts[last].pc = "waiting" THEN ts[last].burst ELSE Len(ts) + 1

\* on_created / on_modified / on_deleted, lines 91-132: the handler is entered
\* with a raw notification for a .json file and goes to _schedule_callback
on_event(p, kind) ==
    /\ obs.pc = "idle"
    /\ obs' = [pc |-> "cancel_check", path |-> p, kind |-> kind, burst |-> BurstOf(timers, p)]

\* _cancel_pending_timer, line 65: if file_path in self._pending_timers
cancel_check ==
    /\ obs.pc = "cancel_check"
    /\ obs' = [obs EXCEPT !.pc = IF pending_timers[obs.path] # 0
                                 THEN "cancel_call" ELSE "start_timer"]
    /\ UNCHANGED <<fsVars, pending_timers, timers, svcVars, loop_queue, hubVars>>

\* a cancel that stops every timer that is waiting
cancel_every_path(ts, t) ==
    [u \in 1..Len(ts) |-> IF ts[u].pc = "waiting"
                          THEN [ts[u] EXCEPT !.pc = "cancelled", !.rem = 0] ELSE ts[u]]

\* Timer.cancel: it stops a timer that is still waiting, and only that
cancel(ts, t) ==
    IF ts[t].pc = "waiting" THEN [ts EXCEPT ![t].pc = "cancelled", ![t].rem = 0] ELSE ts

\* _cancel_pending_timer, line 66: self._pending_timers[file_path].cancel();
\* a KeyError when the entry has gone since line 65 ends the observer thread
cancel_call ==
    /\ obs.pc = "cancel_call"
    /\ IF pending_timers[obs.path] # 0
       THEN /\ timers' = cancel(timers, pending_timers[obs.path])
            /\ obs' = [obs EXCEPT !.pc = "cancel_del"]
       ELSE /\ obs' = [obs EXCEPT !.pc = "crashed"]
            /\ UNCHANGED timers
    /\ UNCHANGED <<fsVars, pending_timers, svcVars, loop_queue, hubVars>>

\* _cancel_pending_timer, line 67: del self._pending_timers[file_path]
cancel_del ==
    /\ obs.pc = "cancel_del"
    /\ IF pending_timers[obs.path] # 0
       THEN /\ pending_timers' = [pending_timers EXCEPT ![obs.path] = 0]
            /\ obs' = [obs EXCEPT !.pc = "start_timer"]
       ELSE /\ obs' = [obs EXCEPT !.pc = "crashed"]
            /\ UNCHANGED pending_timers
    /\ UNCHANGED <<fsVars, timers, svcVars, loop_queue, hubVars>>

NewTimer(p, kind, burst) ==
    [path |-> p, kind |-> kind, pc |-> "waiting", rem |-> DebounceDelay,
     task_id |-> "None", step |-> None, burst |-> burst, called |-> FALSE]

\* _schedule_callback, lines 87-89: a new Timer, entered in the map and started
start_timer ==
    /\ obs.pc = "start_timer"
    /\ timers' = Append(timers, NewTimer(obs.path, obs.kind, obs.burst))
    /\ pending_timers' = [pending_timers EXCEPT ![obs.path] = Len(timers) + 1]
    /\ obs' = IdleObserver
    /\ UNCHANGED <<fsVars, svcVars, loop_queue, hubVars>>

(***************************************************************************)
(* StepService.stop_watching and WatchdogFileWatcher.stop on the main      *)
(* thread                                                                  *)
(***************************************************************************)
stop_watching_stops ==
    /\ ~watching
    /\ stop.pc = "idle"
    /\ api' = Called("stop_watching", "none")
    /\ stop' = [pc |-> "cancel_all", pending |-> {}]
    /\ UNCHANGED <<fsVars, debVars, steps_cache, watching, loop_queue, hubVars>>

\* StepService.stop_watching when not watching, lines 126-128: it returns
stop_watching_noop ==
    /\ ~watching
    /\ stop.pc = "idle"
    /\ api' = Called("stop_watching", "none")
    /\ UNCHANGED <<fsVars, debVars, steps_cache, watching, stop, loop_queue, hubVars>>

\* StepService.stop_watching when watching, line 130, and WatchdogFileWatcher.stop,
\* lines 232-234: with the observer thread no longer alive stop returns at once
stop_watching ==
    /\ watching
    /\ stop.pc = "idle"
    /\ api' = Called("stop_watching", "none")
    /\ stop' = [pc |-> IF obs.pc = "crashed" THEN "finish" ELSE "cancel_all",
                pending |-> {}]
    /\ UNCHANGED <<fsVars, debVars, steps_cache, watching, loop_queue, hubVars>>

\* cancel_all_pending, lines 139-140: cancel() on every timer of the map. The
\* step notes the timers that are scheduled and have not fired as it is called
cancel_all_pending ==
    /\ stop.pc = "cancel_all"
    /\ timers' = [t \in TimerIds |->
                     IF \E p \in Paths : pending_timers[p] = t
                     THEN cancel(timers, t)[t] ELSE timers[t]]
    /\ stop' = [pc |-> "clear", pending |-> {t \in TimerIds : timers[t].pc = "waiting"}]
    /\ UNCHANGED <<fsVars, obs, pending_timers, steps_cache, watching, api, loop_queue, hubVars>>

\* cancel_all_pending, line 141: self._pending_timers.clear()
clear_pending ==
    /\ stop.pc = "clear"
    /\ pending_timers' = [p \in Paths |-> 0]
    /\ stop' = [stop EXCEPT !.pc = "observer_stop"]
    /\ UNCHANGED <<fsVars, obs, timers, steps_cache, watching, api, loop_queue, hubVars>>

\* WatchdogFileWatcher.stop, line 242: observer.stop(); the observer thread
\* takes no further notification
observer_stop ==
    /\ stop.pc = "observer_stop"
    /\ stop' = [stop EXCEPT !.pc = "join"]
    /\ UNCHANGED <<fsVars, debVars, steps_cache, watching, api, loop_queue, hubVars>>

\* WatchdogFileWatcher.stop, lines 243-246: join returns when the observer thread
\* has left the handler it was in
observer_joined ==
    /\ stop.pc = "join"
    /\ obs.pc \in {"idle", "crashed"}
    /\ stop' = [stop EXCEPT !.pc = "finish"]
    /\ UNCHANGED <<fsVars, debVars, steps_cache, watching, api, loop_queue, hubVars>>

\* StepService.stop_watching, lines 131-132: not watching, no callback
stop_finish ==
    /\ stop.pc = "finish"
    /\ watching' = FALSE
    /\ stop' = [stop EXCEPT !.pc = "idle"]
    /\ UNCHANGED <<fsVars, debVars, steps_cache, api, loop_queue, hubVars>>

\* one step of the main thread inside stop_watching
StopStep ==
    \/ cancel_all_pending
    \/ clear_pending
    \/ observer_stop
    \/ observer_joined
    \/ stop_finish

\* the observer thread is running and takes notifications
Observing == watching /\ stop.pc \notin {"join", "finish"}

(***************************************************************************)
(* Time and the Timer threads                                              *)
(***************************************************************************)
\* The statements that only touch memory take no time on the scale of the quiet
\* period: the clock does not advance while the observer thread is inside a
\* handler or a Timer thread is between two of them. Time passes while threads
\* wait (a timer for its interval, stop for the observer thread) and during I/O:
\* the repository's scan of the folder (h_refresh)
TimePasses ==
    /\ obs.pc \in {"idle", "crashed"}
    /\ stop.pc \in {"idle", "join"}
    /\ \A t \in TimerIds :
          timers[t].pc \in {"waiting", "cancelled", "h_refresh", "done", "crashed"}

\* a tick of the clock passes: every waiting timer is one tick nearer to its
\* interval's end, and one that reaches it leaves its wait and calls its function
Expire(tm) ==
    IF tm.pc # "waiting" THEN tm
    ELSE IF tm.rem > 1 THEN [tm EXCEPT !.rem = tm.rem - 1]
    ELSE [tm EXCEPT !.rem = 0, !.pc = "fire_check"]

Tick ==
    /\ TimePasses
    /\ \E t \in TimerIds : timers[t].pc = "waiting"
    /\ timers' = [t \in TimerIds |-> Expire(timers[t])]
    /\ UNCHANGED <<fsVars, obs, pending_timers, svcVars, loop_queue, hubVars>>

\* fire_callback, line 81: if file_path in self._pending_timers
fire_check(t) ==
    /\ timers[t].pc = "fire_check"
    /\ timers' = [timers EXCEPT ![t].pc = IF pending_timers[timers[t].path] # 0
                                          THEN "fire_del" ELSE "callback"]
    /\ UNCHANGED <<fsVars, obs, pending_timers, svcVars, loop_queue, hubVars>>

\* fire_callback, line 82: del self._pending_timers[file_path]; a KeyError when
\* the entry has gone since line 81 ends the thread before the callback
fire_del(t) ==
    /\ timers[t].pc = "fire_del"
    /\ IF pending_timers[timers[t].path] # 0
       THEN /\ pending_timers' = [pending_timers EXCEPT ![timers[t].path] = 0]
            /\ timers' = [timers EXCEPT ![t].pc = "callback"]
       ELSE /\ timers' = [timers EXCEPT ![t].pc = "crashed"]
            /\ UNCHANGED pending_timers
    /\ UNCHANGED <<fsVars, obs, svcVars, loop_queue, hubVars>>

\* a handler that goes on without an id
AfterResolve_goes_on(task_id, kind) ==
    IF kind = DELETED THEN "h_notify" ELSE "h_refresh"

\* where _handle_file_event goes after resolving the path, lines 146-157
AfterResolve(task_id, kind) ==
    IF task_id = "None" THEN "done"
    ELSE IF kind = DELETED THEN "h_pop"
    ELSE "h_refresh"

\* fire_callback, lines 83-85: self._callback(FileEvent(event_type, file_path)),
\* which enters StepService._handle_file_event (lines 146-155)
callback(t) ==
    /\ timers[t].pc = "callback"
    /\ LET task_id == extract_task_id_from_path(timers[t].path)
       IN  timers' = [timers EXCEPT ![t].called = TRUE,
                                    ![t].task_id = task_id,
                                    ![t].pc = AfterResolve(task_id, timers[t].kind)]
    /\ UNCHANGED <<fsVars, obs, pending_timers, svcVars, loop_queue, hubVars>>

h_pop_del(t) ==
    /\ timers[t].pc = "h_pop"
    /\ IF steps_cache[timers[t].task_id] # None
       THEN /\ timers' = [timers EXCEPT ![t].step = steps_cache[timers[t].task_id],
                                        ![t].pc = "h_notify"]
            /\ steps_cache' = [steps_cache EXCEPT ![timers[t].task_id] = None]
       ELSE /\ timers' = [timers EXCEPT ![t].pc = "crashed"]
            /\ UNCHANGED steps_cache
    /\ UNCHANGED <<fsVars, obs, pending_timers, runVars, loop_queue, hubVars>>

\* _handle_file_event, line 159: step = self._steps_cache.pop(task_id, None)
h_pop(t) ==
    /\ timers[t].pc = "h_pop"
    /\ timers' = [timers EXCEPT ![t].step = steps_cache[timers[t].task_id],
                                ![t].pc = "h_notify"]
    /\ steps_cache' = [steps_cache EXCEPT ![timers[t].task_id] = None]
    /\ UNCHANGED <<fsVars, obs, pending_timers, runVars, loop_queue, hubVars>>

\* a refresh that takes the entity out of the store when it finds none
h_refresh_evicts(t) ==
    /\ timers[t].pc = "h_refresh"
    /\ \E step \in refresh(files, timers[t].task_id) :
          /\ timers' = [timers EXCEPT ![t].step = step,
                                      ![t].pc = IF step # None THEN "h_store" ELSE "h_notify"]
          /\ steps_cache' = IF step # None THEN steps_cache
                            ELSE [steps_cache EXCEPT ![timers[t].task_id] = None]
    /\ UNCHANGED <<fsVars, obs, pending_timers, runVars, loop_queue, hubVars>>

\* _handle_file_event, lines 163-164: step = self._repository.refresh(task_id)
h_refresh(t) ==
    /\ timers[t].pc = "h_refresh"
    /\ \E step \in refresh(files, timers[t].task_id) :
          timers' = [timers EXCEPT ![t].step = step,
                                   ![t].pc = IF step # None THEN "h_store" ELSE "h_notify"]
    /\ UNCHANGED <<fsVars, obs, pending_timers, svcVars, loop_queue, hubVars>>

h_store_once(t) ==
    /\ timers[t].pc = "h_store"
    /\ steps_cache' = [steps_cache EXCEPT ![timers[t].task_id] =
                           IF @ = timers[t].step THEN None ELSE timers[t].step]
    /\ timers' = [timers EXCEPT ![t].pc = "h_notify"]
    /\ UNCHANGED <<fsVars, obs, pending_timers, runVars, loop_queue, hubVars>>

\* _handle_file_event, line 165: self._steps_cache[task_id] = step
h_store(t) ==
    /\ timers[t].pc = "h_store"
    /\ steps_cache' = [steps_cache EXCEPT ![timers[t].task_id] = timers[t].step]
    /\ timers' = [timers EXCEPT ![t].pc = "h_notify"]
    /\ UNCHANGED <<fsVars, obs, pending_timers, runVars, loop_queue, hubVars>>

\* main.on_file_change, lines 105-108: run_coroutine_threadsafe hands
\* handle_step_update(event_type, step) to the event loop, which starts the
\* coroutines handed to it in the order they were handed
on_file_change(event_type, step) ==
    loop_queue' = Append(loop_queue, [event_type |-> event_type, step |-> step])

\* _handle_file_event, lines 175-176: self._callback(event_type, step)
h_notify(t) ==
    /\ timers[t].pc = "h_notify"
    /\ IF watching
       THEN on_file_change(timers[t].kind, timers[t].step)
       ELSE UNCHANGED loop_queue
    /\ timers' = [timers EXCEPT ![t].pc = "done"]
    /\ UNCHANGED <<fsVars, obs, pending_timers, svcVars, hubVars>>

\* one step of a Timer thread
TimerStep ==
    \E t \in TimerIds :
        \/ fire_check(t)
        \/ fire_del(t)
        \/ callback(t)
        \/ h_pop(t)
        \/ h_refresh(t)
        \/ h_store(t)
        \/ h_notify(t)

\* one step of the observer thread inside _schedule_callback
ObserverStep ==
    \/ cancel_check
    \/ cancel_call
    \/ cancel_del
    \/ start_timer

\* the same when no timer is pending for the path of the notification: line 65
\* finds no entry and _schedule_callback goes on to lines 87-89
ScheduleStep ==
    \/ cancel_check
    \/ start_timer

(***************************************************************************)
(* The event loop: ConnectionManager, websocket_endpoint,                  *)
(* handle_step_update                                                      *)
(***************************************************************************)
\* the messages of the wire protocol
InitMessage(steps) ==
    [type |-> "init", task_id |-> "None", status |-> "None", steps |-> steps]
UpdateMessage(step) ==
    [type |-> "update", task_id |-> step.task_id, status |-> step.status, steps |-> {}]
RemoveMessage(step) ==
    [type |-> "remove", task_id |-> step.task_id, status |-> "None", steps |-> {}]
NoMessage == [type |-> "none", task_id |-> "None", status |-> "None", steps |-> {}]

MessageFor_update_only(event_type, step) ==
    IF step # None THEN UpdateMessage(step) ELSE NoMessage

\* a handle_step_update with an update for modifications only
MessageFor_modified_only(event_type, step) ==
    IF event_type = DELETED /\ step # None THEN RemoveMessage(step)
    ELSE IF event_type = MODIFIED /\ step # None THEN UpdateMessage(step)
    ELSE NoMessage

\* handle_step_update, lines 75-86: the message for (event_type, step), or none
MessageFor(event_type, step) ==
    IF event_type = DELETED /\ step # None THEN RemoveMessage(step)
    ELSE IF step # None THEN UpdateMessage(step)
    ELSE NoMessage

\* list(self._steps_cache.values())
CacheValues(c) == {c[t] : t \in TaskIds} \ {None}

\* a send_text call: the message, the coroutine that awaits it (0: the client's
\* own websocket_endpoint, k > 0: broadcast pass k) and how it ended
\*   st = "wait"  not completed     "ok"  delivered     "fail"  it raised
Send(msg, by) == [msg |-> msg, by |-> by, st |-> "wait"]

\* the first send_text call on client c that has not completed: a connection
\* completes the sends made on it in the order they were made
FirstWaiting(log) ==
    IF \E i \in 1..Len(log) : log[i].st = "wait"
    THEN CHOOSE i \in 1..Len(log) : log[i].st = "wait" /\ \A j \in 1..(i - 1) : log[j].st # "wait"
    ELSE 0

\* the event loop thread is free to run a step of a coroutine: no endpoint is
\* inside the synchronous get_all_steps or between a raise and its except clause
LoopFree == \A c \in Clients : ws[c].pc \notin {"loading", "snapshot", "raised"}

\* list.remove(x) if x in list
RECURSIVE Remove(_, _)
Remove(list, x) ==
    IF list = <<>> THEN <<>>
    ELSE IF Head(list) = x THEN Tail(list)
    ELSE <<Head(list)>> \o Remove(Tail(list), x)

disconnect_first(list, websocket) ==
    IF \E i \in 1..Len(list) : list[i] = websocket THEN Tail(list) ELSE list

\* a disconnect that leaves the list as it is
disconnect_keeps(list, websocket) == list

\* ConnectionManager.disconnect, lines 65-72
disconnect(list, websocket) == Remove(list, websocket)

\* broadcast, lines 106-112: remove the clients marked during the iteration
RECURSIVE RemoveAll(_, _)
RemoveAll(list, clients) ==
    IF clients = <<>> THEN list
    ELSE RemoveAll(Remove(list, Head(clients)), Tail(clients))

\* a client opens a connection: its websocket_endpoint coroutine starts and
\* awaits websocket.accept() (connect, line 49)
connect_registers_at_once(limit) ==
    /\ watching
    /\ Len(ws) < limit
    /\ ws' = Append(ws, [pc |-> "accepting", alive |-> TRUE, loaded |-> {}, seen |-> 0])
    /\ sent' = Append(sent, <<>>)
    /\ active_connections' = Append(active_connections, Len(ws) + 1)
    /\ UNCHANGED <<fsVars, debVars, svcVars, loop_queue, passes>>

ClientConnects(limit) ==
    /\ watching
    /\ Len(ws) < limit
    /\ ws' = Append(ws, [pc |-> "accepting", alive |-> TRUE, loaded |-> {}, seen |-> 0])
    /\ sent' = Append(sent, <<>>)
    /\ UNCHANGED <<fsVars, debVars, svcVars, loop_queue, active_connections, passes>>

\* a client goes away: from now on a send to it raises and its receive_text
\* raises WebSocketDisconnect
ClientDrops ==
    \E c \in Clients :
        /\ ws[c].alive
        /\ ws[c].pc # "closed"
        /\ ws' = [ws EXCEPT ![c].alive = FALSE]
        /\ UNCHANGED <<fsVars, debVars, svcVars, loop_queue, active_connections, passes, sent>>

\* websocket_endpoint, lines 196-200: the init message of the steps is handed to
\* send_personal, whose send_text the endpoint then awaits
SendInit(c, steps) ==
    sent' = [sent EXCEPT ![c] = Append(@, Send(InitMessage(steps), 0))]

\* connect, lines 49-50, then websocket_endpoint, line 195 with get_all_steps,
\* line 79: with entries in the cache the endpoint goes on to take the snapshot;
\* with none, it scans the folder first (_load_steps_into_cache, line 86), which
\* is I/O during which the loop thread runs nothing else
accepted(c) ==
    /\ LoopFree
    /\ ws[c].pc = "accepting"
    /\ IF ~ws[c].alive
       THEN /\ ws' = [ws EXCEPT ![c].pc = "closed"]
            /\ UNCHANGED active_connections
       ELSE /\ active_connections' = Append(active_connections, c)
            /\ ws' = IF CacheIsEmpty(steps_cache)
                     THEN [ws EXCEPT ![c].pc = "loading", ![c].loaded = get_all(files)]
                     ELSE [ws EXCEPT ![c].pc = "snapshot"]
    /\ UNCHANGED <<fsVars, debVars, svcVars, loop_queue, passes, sent>>

\* _load_steps_into_cache, line 87: the cache becomes the dict of the steps scanned
loaded(c) ==
    /\ ws[c].pc = "loading"
    /\ \E cache \in load_steps(ws[c].loaded) : steps_cache' = cache
    /\ ws' = [ws EXCEPT ![c].pc = "snapshot", ![c].loaded = {}]
    /\ UNCHANGED <<fsVars, debVars, runVars, loop_queue, active_connections, passes, sent>>

\* get_all_steps, line 82: the snapshot is the cache's values as they are now;
\* websocket_endpoint, lines 196-200: the init message of them
\* the number of executions of _handle_file_event whose store mutation is
\* complete (lines 159 and 169 are behind them). Settled changes are handled one
\* after the other and each ends in the callback, so the k-th of them is the one
\* whose step update pass k broadcasts
Mutations == Cardinality({t \in 1..Len(timers) : timers[t].pc \in {"h_notify", "done"}})

snapshot_of_folder(c) ==
    /\ ws[c].pc = "snapshot"
    /\ SendInit(c, get_all(files))
    /\ ws' = [ws EXCEPT ![c].pc = "init_send", ![c].seen = Mutations]
    /\ UNCHANGED <<fsVars, debVars, svcVars, loop_queue, active_connections, passes>>

snapshot(c) ==
    /\ ws[c].pc = "snapshot"
    /\ SendInit(c, CacheValues(steps_cache))
    /\ ws' = [ws EXCEPT ![c].pc = "init_send", ![c].seen = Mutations]
    /\ UNCHANGED <<fsVars, debVars, svcVars, loop_queue, active_connections, passes>>

send_personal_unregisters(c) ==
    /\ LoopFree
    /\ ws[c].pc = "init_send"
    /\ LET i == FirstWaiting(sent[c])
       IN  /\ i # 0
           /\ sent[c][i].by = 0
           /\ sent' = [sent EXCEPT ![c][i].st = IF ws[c].alive THEN "ok" ELSE "fail"]
    /\ ws' = [ws EXCEPT ![c].pc = IF ws[c].alive THEN "open" ELSE "raised"]
    /\ active_connections' = IF ws[c].alive THEN active_connections
                              ELSE disconnect(active_connections, c)
    /\ UNCHANGED <<fsVars, debVars, svcVars, loop_queue, passes>>

\* send_personal, lines 131-135, alone: its send_text completes and the endpoint
\* goes on to receive_text (line 207), or the send raised and send_personal
\* raises it again (line 135) into the endpoint
send_personal(c) ==
    /\ LoopFree
    /\ ws[c].pc = "init_send"
    /\ LET i == FirstWaiting(sent[c])
       IN  /\ i # 0
           /\ sent[c][i].by = 0
           /\ sent' = [sent EXCEPT ![c][i].st = IF ws[c].alive THEN "ok" ELSE "fail"]
    /\ ws' = [ws EXCEPT ![c].pc = IF ws[c].alive THEN "open" ELSE "raised"]
    /\ UNCHANGED <<fsVars, debVars, svcVars, loop_queue, active_connections, passes>>

\* websocket_endpoint, lines 212-214, alone: the exception send_personal raised
\* is caught by the endpoint, which disconnects the client
init_failed(c) ==
    /\ ws[c].pc = "raised"
    /\ ws' = [ws EXCEPT ![c].pc = "closed"]
    /\ active_connections' = disconnect(active_connections, c)
    /\ UNCHANGED <<fsVars, debVars, svcVars, loop_queue, passes, sent>>

\* send_personal's send_text completes (lines 131-135): the endpoint goes on to
\* receive_text (line 207), or the send raised and the endpoint disconnects
\* (lines 212-214); there is no await between the raise and the disconnect, so
\* the loop runs them as one step
init_sent(c) ==
    /\ LoopFree
    /\ ws[c].pc = "init_send"
    /\ LET i == FirstWaiting(sent[c])
       IN  /\ i # 0
           /\ sent[c][i].by = 0
           /\ sent' = [sent EXCEPT ![c][i].st = IF ws[c].alive THEN "ok" ELSE "fail"]
    /\ IF ws[c].alive
       THEN /\ ws' = [ws EXCEPT ![c].pc = "open"]
            /\ UNCHANGED active_connections
       ELSE /\ ws' = [ws EXCEPT ![c].pc = "closed"]
            /\ active_connections' = disconnect(active_connections, c)
    /\ UNCHANGED <<fsVars, debVars, svcVars, loop_queue, passes>>

\* websocket_endpoint, lines 207-211: receive_text raises WebSocketDisconnect
receive_disconnect(c) ==
    /\ LoopFree
    /\ ws[c].pc = "open"
    /\ ~ws[c].alive
    /\ ws' = [ws EXCEPT ![c].pc = "closed"]
    /\ active_connections' = disconnect(active_connections, c)
    /\ UNCHANGED <<fsVars, debVars, svcVars, loop_queue, passes, sent>>

\* broadcast, line 94: the for loop takes the next connection of the list (a
\* list iterator is an index into the list as it is now) and calls send_text on
\* it (line 96); or the list is exhausted and the marked clients are removed
\* (lines 106-112). ps and log are passes and sent as the step has them so far
Iterate(ps, k, log) ==
    IF ps[k].idx < Len(active_connections)
    THEN LET connection == active_connections[ps[k].idx + 1]
         IN  /\ passes' = [ps EXCEPT ![k].idx = @ + 1,
                                     ![k].target = connection,
                                     ![k].pc = "sending"]
             /\ sent' = [log EXCEPT ![connection] = Append(@, Send(ps[k].msg, k))]
             /\ UNCHANGED active_connections
    ELSE /\ passes' = [ps EXCEPT ![k].pc = "done", ![k].target = 0,
                                 ![k].disconnected = <<>>]
         /\ active_connections' = RemoveAll(active_connections, ps[k].disconnected)
         /\ sent' = log

\* the loop starts the next coroutine handed to it: handle_step_update, lines
\* 75-88, and broadcast (lines 85-94) up to its first await. The pass keeps, for
\* the record, the connections that were registered when its iteration began
handle_step_update ==
    /\ LoopFree
    /\ loop_queue # <<>>
    /\ loop_queue' = Tail(loop_queue)
    /\ LET message == MessageFor(Head(loop_queue).event_type, Head(loop_queue).step)
           pass == [msg |-> message, idx |-> 0, target |-> 0, pc |-> "done",
                    disconnected |-> <<>>, registered |-> active_connections]
       IN  IF message = NoMessage
           THEN /\ passes' = Append(passes, pass)
                /\ UNCHANGED <<active_connections, sent>>
           ELSE Iterate(Append(passes, pass), Len(passes) + 1, sent)
    /\ UNCHANGED <<fsVars, debVars, svcVars, ws>>

\* broadcast, lines 95-103: the awaited send_text of pass k completes or raises
\* (the client is marked for removal), and the loop goes to its next connection
send_text_done(k) ==
    /\ LoopFree
    /\ passes[k].pc = "sending"
    /\ LET c == passes[k].target
           i == FirstWaiting(sent[c])
       IN  /\ i # 0
           /\ sent[c][i].by = k
           /\ IF ws[c].alive
              THEN Iterate(passes, k, [sent EXCEPT ![c][i].st = "ok"])
              ELSE Iterate([passes EXCEPT ![k].disconnected = Append(@, c)], k,
                           [sent EXCEPT ![c][i].st = "fail"])
    /\ UNCHANGED <<fsVars, debVars, svcVars, loop_queue, ws>>

\* one step of the event loop thread
LoopStep ==
    \/ handle_step_update
    \/ \E k \in PassIds : send_text_done(k)
    \/ \E c \in Clients :
          \/ accepted(c)
          \/ loaded(c)
          \/ snapshot(c)
          \/ init_sent(c)
          \/ receive_disconnect(c)

(***************************************************************************)
(* The folder and the raw notifications of the watch source                *)
(***************************************************************************)
\* what a change of the given kind can leave in file p
ContentsAfter(p, kind) ==
    IF kind = DELETED THEN {Absent}
    ELSE {[task_id |-> extract_task_id_from_path(p), status |-> s] : s \in FileStatuses}
         \cup {Malformed}

\* the kinds of change file p can undergo
KindsFor(fs, p) ==
    IF fs[p] = Absent THEN {CREATED} ELSE {MODIFIED, DELETED}

\* a file changes and the observer delivers the raw notification of it
Notification(limit) ==
    /\ Observing
    /\ Len(timers) < limit
    /\ \E p \in Paths : \E kind \in KindsFor(files, p) :
          /\ \E c \in ContentsAfter(p, kind) : c # files[p] /\ files' = [files EXCEPT ![p] = c]
          /\ on_event(p, kind)
    /\ UNCHANGED <<folder, examined, pending_timers, timers, svcVars, loop_queue, hubVars>>

RawNotification == Notification(MaxTimers)

\* a file changes once the change before it has settled: its notification has
\* been debounced and handled to the end, so no timer is pending for any path
Settled ==
    /\ obs.pc = "idle"
    /\ \A t \in TimerIds : timers[t].pc \in {"done", "cancelled", "crashed"}

SettledChange(limit) ==
    /\ watching
    /\ Settled
    /\ Len(timers) < limit
    /\ \E p \in Paths : \E kind \in KindsFor(files, p) :
          /\ \E c \in ContentsAfter(p, kind) : c # files[p] /\ files' = [files EXCEPT ![p] = c]
          /\ on_event(p, kind)
    /\ UNCHANGED <<folder, examined, pending_timers, timers, svcVars, loop_queue, hubVars>>

\* a file is written again with the content it has (its modification time
\* changes), once the change before it has settled: a modified notification
Touched(limit) ==
    /\ watching
    /\ Settled
    /\ Len(timers) < limit
    /\ \E p \in Paths : files[p] # Absent /\ on_event(p, MODIFIED)
    /\ UNCHANGED <<fsVars, pending_timers, timers, svcVars, loop_queue, hubVars>>

(***************************************************************************)
(* Spec: the whole pipeline, from a settled change of the folder to the    *)
(* clients, under every interleaving of the threads and of the coroutines  *)
(***************************************************************************)
Next ==
    \/ start_watching
    \/ SettledChange(MaxSettled)
    \/ ScheduleStep
    \/ Tick
    \/ TimerStep
    \/ ClientConnects(MaxClients)
    \/ ClientDrops
    \/ LoopStep

Spec == Constructed(HubFolders) /\ [][Next]_vars

(***************************************************************************)
(* SpecHub: the event loop alone. The Timer threads' calls of              *)
(* on_file_change are inputs: _handle_file_event ends with any event type  *)
(* and with a step or with None                                            *)
(***************************************************************************)
AStep == [task_id |-> "01-01", status |-> "completed"]
HubUpdates == {<<MODIFIED, AStep>>, <<DELETED, AStep>>, <<MODIFIED, None>>, <<DELETED, None>>}
FanoutUpdates == {<<MODIFIED, AStep>>}

StepUpdateIssued(limit, updates) ==
    /\ watching
    /\ Len(loop_queue) + Len(passes) < limit
    /\ \E u \in updates : on_file_change(u[1], u[2])
    /\ UNCHANGED <<fsVars, debVars, svcVars, hubVars>>

NextHub ==
    \/ start_watching
    \/ StepUpdateIssued(MaxIssued, HubUpdates)
    \/ ClientConnects(HubClients)
    \/ ClientDrops
    \/ LoopStep

SpecHub == Constructed(HubFolders) /\ [][NextHub]_vars

(***************************************************************************)
(* SpecFanout: the event loop with several viewers connected before the    *)
(* folder changes, and step updates issued while they are connected        *)
(***************************************************************************)
AllOpen == Len(ws) = FanoutClients /\ \A c \in Clients : ws[c].pc \in {"open", "closed"}

NextFanout ==
    \/ start_watching
    \/ AllOpen /\ StepUpdateIssued(FanoutIssued, FanoutUpdates)
    \/ loop_queue = <<>> /\ passes = <<>> /\ ClientConnects(FanoutClients)
    \/ ClientDrops
    \/ LoopStep

SpecFanout == Constructed(HubFolders) /\ [][NextFanout]_vars

(***************************************************************************)
(* SpecPipe: settled changes of the folder, through the debouncer and the  *)
(* store to the messages broadcast, with no client connected               *)
(***************************************************************************)
NextPipe ==
    \/ start_watching
    \/ SettledChange(MaxChanges)
    \/ Touched(MaxChanges)
    \/ ScheduleStep
    \/ Tick
    \/ TimerStep
    \/ handle_step_update

SpecPipe == Init /\ [][NextPipe]_vars

(***************************************************************************)
(* SpecSettle: settled changes of the folder with the threads scheduled    *)
(* fairly: lifespan calls start_watching, the clock goes on, and a thread  *)
(* or coroutine that can take a step takes it in the end                   *)
(***************************************************************************)
NextSettle ==
    \/ start_watching
    \/ SettledChange(SettleChanges)
    \/ ScheduleStep
    \/ Tick
    \/ TimerStep
    \/ handle_step_update

SpecSettle ==
    /\ Init
    /\ [][NextSettle]_vars
    /\ WF_vars(start_watching)
    /\ WF_vars(ScheduleStep)
    /\ WF_vars(Tick)
    /\ WF_vars(TimerStep)
    /\ WF_vars(handle_step_update)

(***************************************************************************)
(* SpecRace: the debouncer and the store under every interleaving of the   *)
(* observer thread, the Timer threads and the clock                        *)
(***************************************************************************)
NextRace ==
    \/ start_watching
    \/ RawNotification
    \/ ObserverStep
    \/ Tick
    \/ TimerStep

SpecRace == Init /\ [][NextRace]_vars

(***************************************************************************)
(* SpecDebounce: _DebouncedEventHandler alone, with raw notifications of   *)
(* any kind for the paths and a callback that returns at once              *)
(***************************************************************************)
\* the observer delivers a raw notification; the handler does not look at the file
RawEvent(limit) ==
    /\ Observing
    /\ Len(timers) < limit
    /\ \E p \in Paths : \E kind \in FileEventType : on_event(p, kind)
    /\ UNCHANGED <<fsVars, pending_timers, timers, svcVars, loop_queue, hubVars>>

\* fire_callback, lines 83-85: self._callback(FileEvent(event_type, file_path))
\* is called and returns
callback_returns(t) ==
    /\ timers[t].pc = "callback"
    /\ timers' = [timers EXCEPT ![t].called = TRUE, ![t].pc = "done"]
    /\ UNCHANGED <<fsVars, obs, pending_timers, svcVars, loop_queue, hubVars>>

NextDebounce ==
    \/ start_watching
    \/ RawEvent(BurstTimers)
    \/ ObserverStep
    \/ Tick
    \/ \E t \in TimerIds : fire_check(t) \/ fire_del(t) \/ callback_returns(t)

SpecDebounce == Constructed({EmptyFolder}) /\ [][NextDebounce]_vars

(***************************************************************************)
(* SpecFilter: the observer delivers raw notifications for files and       *)
(* directories of any name to on_created / on_modified / on_deleted        *)
(***************************************************************************)
\* what the raw notifications target: the step files, two directories (one of
\* them named like a JSON file) and files that are no JSON files
SubDirectories == {"/w/sub.json", "/w/sub"}
RawTargets == Paths \cup SubDirectories \cup {"/w/notes.txt", "/w/.json", "/w/01-01.json.bak"}

\* event.is_directory, as watchdog sets it
is_directory(path) == path \in SubDirectories

\* str.lower, on the letters of the extension
lower(c) ==
    CASE c = "J" -> "j" [] c = "S" -> "s" [] c = "O" -> "o" [] c = "N" -> "n" [] OTHER -> c

\* Path(path).suffix: the last component from its last "." on, unless that "."
\* is the component's first or last character
suffix(cs) ==
    LET name == basename(cs)
        dots == {i \in 1..Len(name) : name[i] = "."}
        last == IF dots = {} THEN 0 ELSE CHOOSE i \in dots : \A j \in dots : j <= i
    IN  IF 1 < last /\ last < Len(name) THEN SubSeq(name, last, Len(name)) ELSE <<>>

\* a filter that lets every name through
is_json_file_any(cs) == TRUE

\* _is_json_file, line 57: Path(path).suffix.lower() == ".json"
is_json_file(cs) ==
    [i \in 1..Len(suffix(cs)) |-> lower(suffix(cs)[i])] = <<".", "j", "s", "o", "n">>

\* the observer thread takes a raw notification and enters the handler of its kind
dispatch(limit) ==
    /\ Observing
    /\ obs.pc = "idle"
    /\ Len(timers) < limit
    /\ \E target \in RawTargets : \E kind \in FileEventType :
          obs' = [pc |-> "filter", path |-> target, kind |-> kind, burst |-> 0]
    /\ UNCHANGED <<fsVars, pending_timers, timers, svcVars, loop_queue, hubVars>>

\* on_created / on_modified / on_deleted, lines 91-132: return for a directory
\* and for a file that is no JSON file, _schedule_callback for the rest
filter ==
    /\ obs.pc = "filter"
    /\ obs' = IF is_directory(obs.path) \/ ~is_json_file(Chars(obs.path))
              THEN IdleObserver
              ELSE [obs EXCEPT !.pc = "cancel_check", !.burst = BurstOf(timers, obs.path)]
    /\ UNCHANGED <<fsVars, pending_timers, timers, svcVars, loop_queue, hubVars>>

NextFilter ==
    \/ start_watching
    \/ dispatch(FilterTimers)
    \/ filter
    \/ ObserverStep
    \/ Tick
    \/ \E t \in TimerIds : fire_check(t) \/ fire_del(t) \/ callback_returns(t)

SpecFilter == Constructed({EmptyFolder}) /\ [][NextFilter]_vars

(***************************************************************************)
(* SpecEvent: StepService._handle_file_event called by the file watcher    *)
(* with logical events of any kind, for step files and for other files     *)
(***************************************************************************)
\* the paths of the logical events: the step files and two files whose names
\* are no task id
EventPaths == Paths \cup {"/w/sub.json", "/w/notes.txt"}

\* the file watcher calls the callback it was given, on a thread of its own,
\* with FileEvent(event_type, file_path)
FileEventIssued(limit) ==
    /\ watching
    /\ Len(timers) < limit
    /\ \E p \in EventPaths : \E kind \in FileEventType :
          timers' = Append(timers, [NewTimer(p, kind, Len(timers) + 1) EXCEPT
                                        !.pc = "callback", !.rem = 0])
    /\ UNCHANGED <<fsVars, obs, pending_timers, svcVars, loop_queue, hubVars>>

NextEvent ==
    \/ start_watching
    \/ FileEventIssued(MaxEvents)
    \/ \E t \in TimerIds : callback(t) \/ h_pop(t) \/ h_refresh(t) \/ h_store(t) \/ h_notify(t)
    \/ handle_step_update

SpecEvent == Init /\ [][NextEvent]_vars

(***************************************************************************)
(* SpecEquiv: one logical event handled from one store and one folder,     *)
(* first as 'created' and then as 'modified'                               *)
(***************************************************************************)
\* what a file can hold: nothing, undecodable text, or a step with any task id
AnyContents ==
    {Absent, Malformed} \cup {[task_id |-> t, status |-> s] : t \in TaskIds, s \in FileStatuses}
AnyFolders == [Paths -> AnyContents]
\* the stores: under each id nothing, or a step with that id
AnyStores ==
    {c \in [TaskIds -> {None} \cup {[task_id |-> t, status |-> s] : t \in TaskIds, s \in FileStatuses}] :
        \A t \in TaskIds : c[t] # None => c[t].task_id = t}

\* _handle_file_event (lines 146-176) and handle_step_update (lines 75-88) run
\* to the end from store cache over folder fs: the stores and messages they can
\* end with (glob's order decides between files that hold the same task id)
handle_file_event(fs, cache, file_path, kind) ==
    LET task_id == extract_task_id_from_path(file_path)
        next == AfterResolve(task_id, kind)
    IN  IF next = "done" THEN {[cache |-> cache, msg |-> NoMessage]}
        ELSE IF next = "h_pop"
        THEN {[cache |-> [cache EXCEPT ![task_id] = None],
               msg |-> MessageFor(kind, cache[task_id])]}
        ELSE {[cache |-> IF step # None THEN [cache EXCEPT ![task_id] = step] ELSE cache,
               msg |-> MessageFor(kind, step)] : step \in refresh(fs, task_id)}

InitEquiv ==
    /\ Service({"dir"}, {EmptyFolder})
    /\ examined \in {[fn |-> "_handle_file_event", arg |-> [path |-> p, fs |-> fs, cache |-> c],
                      ret |-> <<>>, done |-> FALSE] :
                        p \in EventPaths, fs \in AnyFolders, c \in AnyStores}

\* the event is handled as 'created', and then, from the same store and folder,
\* as 'modified'; ret holds what each can end with
HandleBoth ==
    /\ examined.fn = "_handle_file_event"
    /\ Len(examined.ret) < 2
    /\ LET kind == IF examined.ret = <<>> THEN CREATED ELSE MODIFIED
           a == examined.arg
       IN  examined' = [examined EXCEPT
                           !.ret = Append(@, handle_file_event(a.fs, a.cache, a.path, kind)),
                           !.done = TRUE]
    /\ UNCHANGED <<files, folder, debVars, svcVars, loop_queue, hubVars>>

SpecEquiv == InitEquiv /\ [][HandleBoth]_vars

(***************************************************************************)
(* SpecKeys: the store over a folder whose files may hold any task id,     *)
(* their own name's or another file's, loaded and then kept by events      *)
(***************************************************************************)
\* a file is written, with any content, or removed
AnyChange ==
    /\ \E p \in Paths : \E c \in AnyContents : c # files[p] /\ files' = [files EXCEPT ![p] = c]
    /\ UNCHANGED <<folder, examined, debVars, svcVars, loop_queue, hubVars>>

NextKeys ==
    \/ start_watching
    \/ AnyChange
    \/ FileEventIssued(KeyEvents)
    \/ \E t \in TimerIds : callback(t) \/ h_pop(t) \/ h_refresh(t) \/ h_store(t) \/ h_notify(t)
    \/ handle_step_update

SpecKeys == Constructed(AnyFolders) /\ [][NextKeys]_vars

(***************************************************************************)
(* SpecLife: the service started and stopped, with the watched path        *)
(* possibly missing or no directory at first, while the observer thread    *)
(* delivers notifications and Timer threads run                            *)
(***************************************************************************)
\* the operator puts a directory at the watched path
FolderAppears ==
    /\ ~watching
    /\ stop.pc = "idle"
    /\ folder # "dir"
    /\ folder' = "dir"
    /\ UNCHANGED <<files, examined, debVars, svcVars, loop_queue, hubVars>>

NextLife ==
    \/ start_watching
    \/ start_watching_rejected
    \/ stop_watching
    \/ stop_watching_noop
    \/ StopStep
    \/ FolderAppears
    \/ Notification(LifeTimers)
    \/ ObserverStep
    \/ Tick
    \/ TimerStep

SpecLife == Built(FolderKinds, HubFolders) /\ [][NextLife]_vars

(***************************************************************************)
(* SpecCalls: start_watching and stop_watching called in any order and in  *)
(* any state of the watched path, with settled changes of the folder       *)
(***************************************************************************)
NextCalls ==
    \/ start_watching
    \/ start_watching_rejected
    \/ stop_watching
    \/ stop_watching_noop
    \/ StopStep
    \/ FolderAppears
    \/ SettledChange(CallTimers)
    \/ ScheduleStep
    \/ Tick
    \/ TimerStep

SpecCalls == Built(FolderKinds, HubFolders) /\ [][NextCalls]_vars

(***************************************************************************)
(* SpecRestart: the service stopped and started again, the folder changing *)
(* while it is watched and while it is not                                 *)
(***************************************************************************)
\* a file changes while the service is not watching: no notification
ChangeWhileStopped ==
    /\ ~watching
    /\ stop.pc = "idle"
    /\ \E p \in Paths : \E kind \in KindsFor(files, p) :
          \E c \in ContentsAfter(p, kind) : c # files[p] /\ files' = [files EXCEPT ![p] = c]
    /\ UNCHANGED <<folder, examined, debVars, svcVars, loop_queue, hubVars>>

NextRestart ==
    \/ start_watching
    \/ stop_watching
    \/ StopStep
    \/ ChangeWhileStopped
    \/ SettledChange(RestartTimers)
    \/ ScheduleStep
    \/ Tick
    \/ TimerStep

SpecRestart == Constructed(HubFolders) /\ [][NextRestart]_vars

(***************************************************************************)
(* SpecChannel: connections from their accept to their end, with step      *)
(* updates broadcast while they come and go                                *)
(***************************************************************************)
NextChannel ==
    \/ start_watching
    \/ StepUpdateIssued(ChannelIssued, FanoutUpdates)
    \/ ClientConnects(ChannelClients)
    \/ ClientDrops
    \/ LoopStep

SpecChannel == Constructed(HubFolders) /\ [][NextChannel]_vars

(***************************************************************************)
(* SpecView: the whole pipeline with several clients, which connect and    *)
(* go away while one settled change of the folder is handled and broadcast *)
(***************************************************************************)
NextView ==
    \/ start_watching
    \/ SettledChange(MaxSettled)
    \/ ScheduleStep
    \/ Tick
    \/ TimerStep
    \/ ClientConnects(ViewClients)
    \/ ClientDrops
    \/ LoopStep

SpecView == Constructed(HubFolders) /\ [][NextView]_vars

(***************************************************************************)
(* SpecSnapshot: the event loop with the endpoint's init send and its      *)
(* except clause as steps of their own                                     *)
(***************************************************************************)
SnapshotLoopStep ==
    \/ handle_step_update
    \/ \E k \in PassIds : send_text_done(k)
    \/ \E c \in Clients :
          \/ accepted(c)
          \/ loaded(c)
          \/ snapshot(c)
          \/ send_personal(c)
          \/ init_failed(c)
          \/ receive_disconnect(c)

NextSnapshot ==
    \/ start_watching
    \/ StepUpdateIssued(SnapshotIssued, FanoutUpdates)
    \/ ClientConnects(SnapshotClients)
    \/ ClientDrops
    \/ SnapshotLoopStep

SpecSnapshot == Constructed(HubFolders) /\ [][NextSnapshot]_vars

(***************************************************************************)
(* SpecResolve: StepService._extract_task_id_from_path called on its own   *)
(* on every path of a bounded set                                          *)
(***************************************************************************)
RECURSIVE SeqsUpTo(_, _)
SeqsUpTo(S, n) ==
    IF n = 0
    THEN {<<>>}
    ELSE LET shorter == SeqsUpTo(S, n - 1)
         IN  shorter \cup {Append(cs, c) : cs \in shorter, c \in S}

\* file names without extension, the directories and the extensions of the paths
StemChars == {"1", "-", "x", "\n"}
Stems == SeqsUpTo(StemChars, MaxStem)
Directories == {<<>>, <<"/", "a", "/", "b", "/">>}
Extensions == {<<>>, <<".", "j", "s", "o", "n">>, <<".", "t", "x", "t">>,
               <<".", "j", "s", "o", "n", ".", "j", "s", "o", "n">>}

\* the paths named in the documentation of the function, and the paths built
ExamplePaths ==
    {<<"/", "a", "/", "b", "/", "0", "1", "-", "0", "2", ".", "j", "s", "o", "n">>,
     <<"/", "a", "/", "b", "/", "r", "e", "a", "d", "m", "e", ".", "t", "x", "t">>,
     <<"/", "a", "/", "b", "/", "1", "-", "2", ".", "j", "s", "o", "n">>}
ResolvePaths ==
    ExamplePaths \cup {d \o n \o e : d \in Directories, n \in Stems, e \in Extensions}

InitResolve ==
    /\ Service({"dir"}, {EmptyFolder})
    /\ examined \in {[fn |-> "_extract_task_id_from_path", arg |-> path,
                      ret |-> <<>>, done |-> FALSE] : path \in ResolvePaths}

\* the call returns
Resolve ==
    /\ examined.fn = "_extract_task_id_from_path"
    /\ ~examined.done
    /\ examined' = [examined EXCEPT !.ret = extract_from_chars(examined.arg), !.done = TRUE]
    /\ UNCHANGED <<files, folder, debVars, svcVars, loop_queue, hubVars>>

SpecResolve == InitResolve /\ [][Resolve]_vars

(***************************************************************************)
(* SpecRepo: JsonFileRepository._read_step_file, get_all and refresh       *)
(* called on their own on files of every kind of content                   *)
(***************************************************************************)
\* what open and json.load find in a file that glob has listed: the file has
\* gone since, its text is no JSON, its JSON is a list, or its JSON is an object.
\* Of an object: task_id is missing, a number (5), a string that is no task id,
\* or a task id; validation is missing, a list, an object without status, or an
\* object whose status is null, a string that names no status, or a status; the
\* other required fields are there or one is missing
JsonKinds == {"vanished", "undecodable", "list"}
NoObject(kind) == [json |-> kind, task_id |-> "missing", validation |-> "missing", phase |-> "missing"]
NoStatus == {"missing", "no_status"}
OtherStatus == {"null", "bogus", "PENDING"}
JsonObjects ==
    [json : {"object"},
     task_id : {"missing", "int", "abc", "01-01"},
     validation : NoStatus \cup {"list"} \cup OtherStatus \cup StepStatus,
     phase : {"missing", "present"}]
FileContents == {NoObject(kind) : kind \in JsonKinds} \cup JsonObjects

\* a call's outcome: the exception that leaves it, or the value it returns
Raises(exc) == [raised |-> exc, value |-> {}]
Returns(value) == [raised |-> "none", value |-> value]

\* Step._parse_version_from_task_id, lines 61-78, on data["task_id"]
parse_version_from_task_id(task_id) ==
    CASE task_id = "int" -> "TypeError"
      [] task_id = "abc" -> "ValueError"
      [] OTHER -> "none"

from_dict_defaults(data) ==
    IF data.json # "object" THEN Raises("AttributeError")
    ELSE IF data.validation = "list" THEN Raises("AttributeError")
    ELSE LET status_str == IF data.validation \in StepStatus THEN data.validation ELSE "pending"
         IN  IF data.task_id = "missing" \/ data.phase = "missing" THEN Raises("KeyError")
             ELSE IF parse_version_from_task_id(data.task_id) # "none"
                  THEN Raises(parse_version_from_task_id(data.task_id))
                  ELSE Returns({[task_id |-> data.task_id, status |-> status_str]})

\* Step.from_dict, lines 99-118, with Step.__post_init__: the statements in the
\* order they are executed, and the exception of the first that fails.
\* validation = data.get("validation", {}); validation.get("status", "pending");
\* StepStatus(status_str) finds the member with that value or raises ValueError
from_dict(data) ==
    IF data.json # "object" THEN Raises("AttributeError")
    ELSE IF data.validation = "list" THEN Raises("AttributeError")
    ELSE LET status_str == IF data.validation \in NoStatus THEN "pending" ELSE data.validation
         IN  IF status_str \notin StepStatus THEN Raises("ValueError")
             ELSE IF data.task_id = "missing" \/ data.phase = "missing" THEN Raises("KeyError")
             ELSE IF parse_version_from_task_id(data.task_id) # "none"
                  THEN Raises(parse_version_from_task_id(data.task_id))
                  ELSE Returns({[task_id |-> data.task_id, status |-> status_str]})

\* the try block of _read_step_file, lines 98-101
open_and_parse(content) ==
    CASE content.json = "vanished" -> Raises("FileNotFoundError")
      [] content.json = "undecodable" -> Raises("JSONDecodeError")
      [] OTHER -> from_dict(content)

\* _read_step_file, lines 98-115: the except clauses name json.JSONDecodeError,
\* KeyError and ValueError; the value is the set of the Step, {} for None
Caught == {"JSONDecodeError", "KeyError", "ValueError"}
read_step_file_of(content) ==
    LET outcome == open_and_parse(content)
    IN  IF outcome.raised \in Caught THEN Returns({}) ELSE outcome

\* get_all, lines 49-57, on the files in glob's order: the steps in order
RECURSIVE get_all_of(_)
get_all_of(contents) ==
    IF contents = <<>> THEN Returns(<<>>)
    ELSE LET step == read_step_file_of(Head(contents))
             rest == get_all_of(Tail(contents))
         IN  IF step.raised # "none" THEN step
             ELSE IF rest.raised # "none" THEN rest
             ELSE IF step.value = {} THEN rest
             ELSE Returns(<<CHOOSE x \in step.value : TRUE>> \o rest.value)

\* get_by_id / refresh, lines 69-73 and 87: the first step with the task_id
refresh_of(contents, task_id) ==
    LET steps == get_all_of(contents)
    IN  IF steps.raised # "none" THEN steps
        ELSE LET at == {i \in 1..Len(steps.value) : steps.value[i].task_id = task_id}
             IN  IF at = {} THEN Returns({})
                 ELSE Returns({steps.value[CHOOSE i \in at : \A j \in at : i <= j]})

Folders == UNION {[1..n -> FileContents] : n \in 1..RepoFiles}
RepoCalls == {"_read_step_file", "get_all", "refresh"}

InitRepo ==
    /\ Service({"dir"}, {EmptyFolder})
    /\ examined \in {[fn |-> fn, arg |-> contents, ret |-> Returns({}), done |-> FALSE] :
                        fn \in RepoCalls, contents \in Folders}
    /\ examined.fn = "_read_step_file" => Len(examined.arg) = 1

\* the call returns or raises
RepoCall ==
    /\ examined.fn \in RepoCalls
    /\ ~examined.done
    /\ examined' = [examined EXCEPT
                       !.ret = CASE examined.fn = "_read_step_file" -> read_step_file_of(examined.arg[1])
                                 [] examined.fn = "get_all" -> get_all_of(examined.arg)
                                 [] OTHER -> refresh_of(examined.arg, "01-01"),
                       !.done = TRUE]
    /\ UNCHANGED <<files, folder, debVars, svcVars, loop_queue, hubVars>>

SpecRepo == InitRepo /\ [][RepoCall]_vars

(***************************************************************************)
(* SpecParse: Step.from_dict called on its own on every decoded object     *)
(***************************************************************************)
InitParse ==
    /\ Service({"dir"}, {EmptyFolder})
    /\ examined \in {[fn |-> "from_dict", arg |-> data, ret |-> Returns({}), done |-> FALSE] :
                        data \in JsonObjects}

\* the call returns or raises
Parse ==
    /\ examined.fn = "from_dict"
    /\ ~examined.done
    /\ examined' = [examined EXCEPT !.ret = from_dict(examined.arg), !.done = TRUE]
    /\ UNCHANGED <<files, folder, debVars, svcVars, loop_queue, hubVars>>

SpecParse == InitParse /\ [][Parse]_vars

(***************************************************************************)
(* SpecId: Step._parse_version_from_task_id, which Step.__post_init__      *)
(* calls on the task_id of every Step constructed, called on its own       *)
(***************************************************************************)
\* str.split("-"): the parts between the hyphens
RECURSIVE split(_)
split(cs) ==
    IF \A i \in 1..Len(cs) : cs[i] # "-" THEN <<cs>>
    ELSE LET at == CHOOSE i \in 1..Len(cs) : cs[i] = "-" /\ \A j \in 1..(i - 1) : cs[j] # "-"
         IN  <<SubSeq(cs, 1, at - 1)>> \o split(SubSeq(cs, at + 1, Len(cs)))

\* int(part) succeeds, for a part made of the characters of IdChars
IsInt(part) == part # <<>> /\ \A i \in 1..Len(part) : part[i] \in Digits

\* _parse_version_from_task_id, lines 61-78: the exception raised, or "none"
parse_version(cs) ==
    IF cs = <<>> \/ \A i \in 1..Len(cs) : cs[i] # "-" THEN "ValueError"
    ELSE IF Len(split(cs)) # 2 THEN "ValueError"
    ELSE IF ~IsInt(split(cs)[1]) \/ ~IsInt(split(cs)[2]) THEN "ValueError"
    ELSE "none"

IdChars == {"0", "1", "-", "x"}
Ids == SeqsUpTo(IdChars, MaxId)

InitId ==
    /\ Service({"dir"}, {EmptyFolder})
    /\ examined \in {[fn |-> "_parse_version_from_task_id", arg |-> id,
                      ret |-> "none", done |-> FALSE] : id \in Ids}

\* Step(task_id = id, ...) is constructed, or the construction raises
Construct ==
    /\ examined.fn = "_parse_version_from_task_id"
    /\ ~examined.done
    /\ examined' = [examined EXCEPT !.ret = parse_version(examined.arg), !.done = TRUE]
    /\ UNCHANGED <<files, folder, debVars, svcVars, loop_queue, hubVars>>

SpecId == InitId /\ [][Construct]_vars

(***************************************************************************)
(* SpecUnregister: ConnectionManager.disconnect called on its own, twice   *)
(* in a row, on every list of connections and every websocket              *)
(***************************************************************************)
\* the lists connect can have built: every websocket is appended once
ConnectionLists ==
    {list \in SeqsUpTo(1..MaxConnections, MaxConnections) :
        \A i, j \in 1..Len(list) : list[i] = list[j] => i = j}

\* the websockets: those a list can hold, and one that is in none
Websockets == 1..(MaxConnections + 1)

InitUnregister ==
    /\ Service({"dir"}, {EmptyFolder})
    /\ examined \in {[fn |-> "disconnect", arg |-> <<list, websocket>>, ret |-> <<>>, done |-> FALSE] :
                        list \in ConnectionLists, websocket \in Websockets}

\* disconnect(websocket) is called, on the list as the call before it left it;
\* ret holds the list after each call
Unregister ==
    /\ examined.fn = "disconnect"
    /\ Len(examined.ret) < 2
    /\ LET list == IF examined.ret = <<>> THEN examined.arg[1]
                   ELSE examined.ret[Len(examined.ret)]
       IN  examined' = [examined EXCEPT !.ret = Append(@, disconnect(list, examined.arg[2])),
                                        !.done = TRUE]
    /\ UNCHANGED <<files, folder, debVars, svcVars, loop_queue, hubVars>>

SpecUnregister == InitUnregister /\ [][Unregister]_vars

(***************************************************************************)
(* Claims                                                                  *)
(***************************************************************************)
\* the timers of the notifications of burst b, and those that called back
BurstMembers(b) == {t \in TimerIds : timers[t].burst = b}
BurstCallbacks(b) == {t \in BurstMembers(b) : timers[t].called}
BurstIds == {timers[t].burst : t \in TimerIds}
\* no notification of the burst is still to be scheduled, waited for or fired
BurstSettled(b) ==
    /\ obs.pc \in {"idle", "crashed"}
    /\ \A t \in BurstMembers(b) :
          timers[t].pc \notin {"waiting", "fire_check", "fire_del", "callback"}

\* C1: debounce coalescing. The notifications of one burst (each less than the
\* quiet period after the one before, on one path) lead to exactly one call of the
\* downstream callback, and it carries the kind of the burst's last notification:
\* never two calls, never a call for another notification than the last, and one
\* call once the burst's timers are through.
C1_BurstYieldsOneCallback ==
    \A b \in BurstIds :
        /\ Cardinality(BurstCallbacks(b)) <= 1
        /\ \A t \in BurstCallbacks(b) : \A u \in BurstMembers(b) : u <= t
        /\ BurstSettled(b) => Cardinality(BurstCallbacks(b)) = 1

\* the send_text calls on client c that carry an init message, and those that
\* carry the message of a broadcast
Inits(c) == {i \in 1..Len(sent[c]) : sent[c][i].msg.type = "init"}
Deltas(c) == {i \in 1..Len(sent[c]) : sent[c][i].msg.type \in {"update", "remove"}}

\* C2: snapshot before deltas. On every connection, the send of an update or
\* remove message is called only after the send of the connection's init message
\* has been called, and is delivered only after the init message was delivered,
\* whatever broadcast passes are pending or in progress while the endpoint runs.
C2_InitBeforeDeltas ==
    \A c \in Clients : \A i \in Deltas(c) :
        /\ \E j \in Inits(c) : j < i
        /\ sent[c][i].st = "ok" => \E j \in Inits(c) : j < i /\ sent[c][j].st = "ok"

\* a broadcast called send_text on a connection whose init send was still in flight
C2_DeltaBehindInitInFlight ==
    \E c \in Clients :
        /\ Len(sent[c]) >= 2
        /\ sent[c][1].msg.type = "init" /\ sent[c][1].st = "wait"
        /\ sent[c][2].msg.type \in {"update", "remove"}

\* the ids that have an entry in the store
StoredIds(cache) == {t \in TaskIds : cache[t] # None}

\* every connection has at most one init message, one once the endpoint has sent
\* it, and it is delivered on a connection that is open
C3_OneInit ==
    \A c \in Clients :
        /\ Cardinality(Inits(c)) <= 1
        /\ ws[c].pc \in {"init_send", "open"} => Cardinality(Inits(c)) = 1
        /\ ws[c].pc = "open" => \A i \in Inits(c) : sent[c][i].st = "ok"

\* a step in which the send of an init message is called: its steps are the
\* store's entities as the step leaves the store, one for every stored id
C3_SnapshotIsStore ==
    \A c \in 1..Len(sent) :
        (/\ Len(sent'[c]) = Len(sent[c]) + 1
         /\ sent'[c][Len(sent'[c])].msg.type = "init")
        => LET steps == sent'[c][Len(sent'[c])].msg.steps
           IN  /\ steps = {steps_cache'[t] : t \in StoredIds(steps_cache')}
               /\ Cardinality(steps) = Cardinality(StoredIds(steps_cache'))
               /\ \A t \in StoredIds(steps_cache') :
                     Cardinality({st \in steps : st.task_id = t}) = 1

\* C3: every connection gets exactly one init message over its lifetime, and the
\* message's steps are exactly the entities the store holds at the moment the
\* snapshot is taken: one per stored id, none missing, none extra.
C3_ExactlyOneInitOfTheStore == []C3_OneInit /\ [][C3_SnapshotIsStore]_vars

\* a connection is open on an init message that holds the step a file event
\* handler stored before the snapshot
C3_SnapshotAfterUpsert ==
    \E c \in Clients : \E t \in TimerIds :
        /\ ws[c].pc = "open"
        /\ timers[t].pc = "done" /\ timers[t].kind # DELETED /\ timers[t].step # None
        /\ Inits(c) # {}
        /\ \A i \in Inits(c) : sent[c][i].st = "ok" /\ timers[t].step \in sent[c][i].msg.steps

\* membership in a list
InList(list, x) == \E i \in 1..Len(list) : list[i] = x
\* pass k called send_text on connection c and the call ended as st
SentBy(k, c, st) == \E i \in 1..Len(sent[c]) : sent[c][i].by = k /\ sent[c][i].st = st
\* a send of pass k raised
PassFailed(k) == \E c \in Clients : SentBy(k, c, "fail")

\* C4: per-client send failure isolation. When a send of a broadcast pass raised
\* and the pass has returned, every connection whose send raised is out of the
\* active list, and every connection that was registered when the pass began and
\* has not failed is still in the active list and has received the message.
C4_FailureIsolation ==
    \A k \in PassIds :
        (passes[k].pc = "done" /\ PassFailed(k))
        => \A c \in Clients :
              /\ SentBy(k, c, "fail") => ~InList(active_connections, c)
              /\ (InList(passes[k].registered, c) /\ ws[c].alive)
                 => InList(active_connections, c) /\ SentBy(k, c, "ok")

\* the send_text calls made on client c for a broadcast that were delivered
Delivered(c) == {i \in 1..Len(sent[c]) : sent[c][i].by # 0 /\ sent[c][i].st = "ok"}

\* C5: per-client ordering. Broadcast passes are numbered in the order their
\* step updates were issued; a client that receives the messages of two of them
\* receives the earlier one's first.
C5_PerClientOrder ==
    \A c \in Clients : \A i, j \in Delivered(c) :
        i < j => sent[c][i].by < sent[c][j].by

\* the broadcast passes between their first send_text call and their last one's end
InProgress == {k \in PassIds : passes[k].pc = "sending"}

\* C6: broadcast passes do not overlap. At most one pass is between its first and
\* its last send at any time.
C6_PassesDoNotOverlap == Cardinality(InProgress) <= 1

\* the Timer threads that are inside StepService._handle_file_event
InHandler == {t \in TimerIds : timers[t].pc \in HandlerPcs}
\* the event loop thread is inside get_all_steps / _load_steps_into_cache
LoopInStore == \E c \in Clients : ws[c].pc \in {"loading", "snapshot"}

\* C7: serialized store mutation. At most one execution of _handle_file_event is
\* in progress at any time, and none while get_all_steps / _load_steps_into_cache
\* is reading or writing the store.
C7_HandlerIsSerialized ==
    /\ Cardinality(InHandler) <= 1
    /\ LoopInStore => InHandler = {}

\* the timer's event has begun its translation: its pop or refresh has run
BegunTranslation(t) ==
    /\ timers[t].task_id # "None"
    /\ timers[t].pc \in {"h_store", "h_notify", "done"}
\* the timer's event is through with the store (or its thread has ended)
StoreMutationDone(t) == timers[t].pc \in {"h_notify", "done", "crashed", "cancelled"}

\* C8: same-path ordering. Of two logical events for one path, the one whose
\* timer fired later does not begin its translation (refresh, pop) before the
\* earlier one's store mutation has completed.
C8_SamePathInOrder ==
    \A t1, t2 \in TimerIds :
        (/\ t1 < t2
         /\ timers[t1].path = timers[t2].path
         /\ BegunTranslation(t2))
        => StoreMutationDone(t1)

\* the calls of on_file_change made so far, and the message of the n-th: that of
\* the pass it started, or of the coroutine still in the loop's queue
Issued == Len(passes) + Len(loop_queue)
MessageOf(n) ==
    IF n <= Len(passes) THEN passes[n].msg
    ELSE MessageFor(loop_queue[n - Len(passes)].event_type,
                    loop_queue[n - Len(passes)].step)
\* the timers whose logical event has been handled to the end
Handled == {t \in TimerIds : timers[t].pc = "done"}
\* the id of the timer's path
IdOf(t) == extract_task_id_from_path(timers[t].path)
\* the timer is that of the latest change of the folder, and the change has settled
Latest(t) == Settled /\ t = Len(timers)

\* every handled event made one call of on_file_change; an upsert's message is an
\* update or none, a delete's is a remove or none; the latest change, once
\* handled, has the message of the file as it is now
C9_Messages ==
    /\ Issued = Cardinality(Handled)
    /\ \A t \in Handled :
          /\ timers[t].kind \in {CREATED, MODIFIED} => MessageOf(t).type \in {"update", "none"}
          /\ timers[t].kind = DELETED => MessageOf(t).type \in {"remove", "none"}
          /\ timers[t].kind = DELETED /\ timers[t].step # None
             => MessageOf(t) = RemoveMessage([task_id |-> IdOf(t), status |-> timers[t].step.status])
          /\ (/\ Latest(t)
              /\ timers[t].kind \in {CREATED, MODIFIED}
              /\ read_step_file(files[timers[t].path]) # None)
             => /\ MessageOf(t) = UpdateMessage([task_id |-> IdOf(t),
                                                status |-> files[timers[t].path].status])
                /\ steps_cache[IdOf(t)] = files[timers[t].path]
          /\ (Latest(t) /\ timers[t].kind = DELETED) => steps_cache[IdOf(t)] = None

\* a delete's pop of an id the store holds takes the entity out of the store and
\* hands it on
C9_DeleteOfStored ==
    \A t \in TimerIds :
        (/\ timers[t].pc = "h_pop"
         /\ timers'[t].pc # "h_pop"
         /\ steps_cache[timers[t].task_id] # None)
        => /\ timers'[t].step = steps_cache[timers[t].task_id]
           /\ timers'[t].pc = "h_notify"
           /\ steps_cache' = [steps_cache EXCEPT ![timers[t].task_id] = None]

UnknownDeletes == {t \in Handled : timers[t].kind = DELETED /\ timers[t].step = None}

\* no thread ends on an exception; a delete that found nothing has no message; a
\* later change of a valid file has its update all the same
C10_NoMessage ==
    /\ \A t \in TimerIds : timers[t].pc # "crashed"
    /\ obs.pc # "crashed"
    /\ \A t \in UnknownDeletes :
          /\ MessageOf(t) = NoMessage
          /\ \A u \in Handled :
                (/\ u > t /\ Latest(u)
                 /\ timers[u].kind # DELETED
                 /\ read_step_file(files[timers[u].path]) # None)
                => MessageOf(u) = UpdateMessage(files[timers[u].path])

\* a delete's pop of an id the store does not hold leaves the store as it is and
\* hands on None
C10_StoreUnchanged ==
    \A t \in TimerIds :
        (/\ timers[t].pc = "h_pop"
         /\ timers'[t].pc # "h_pop"
         /\ steps_cache[timers[t].task_id] = None)
        => /\ steps_cache' = steps_cache
           /\ timers'[t].step = None
           /\ timers'[t].pc = "h_notify"

SecondApplication(t) ==
    /\ t > 1
    /\ timers[t - 1].path = timers[t].path
    /\ timers[t - 1].pc = "done"
    /\ timers[t - 1].kind # DELETED /\ timers[t].kind # DELETED
    /\ timers[t].step # None
    /\ timers[t - 1].step = timers[t].step

\* the store step of a second application leaves the store as the first left it
C12_SecondLeavesStore ==
    \A t \in TimerIds :
        (/\ timers[t].pc = "h_store"
         /\ timers'[t].pc # "h_store"
         /\ SecondApplication(t))
        => steps_cache' = steps_cache

\* after a second application the store holds the entity, once, under its id
C12_OneEntity ==
    \A t \in Handled :
        (Latest(t) /\ SecondApplication(t))
        => /\ steps_cache[IdOf(t)] = timers[t].step
           /\ Cardinality({st \in CacheValues(steps_cache) : st.task_id = IdOf(t)}) = 1

\* C12: idempotence of upsert. A create or modify event applied a second time
\* while the file is unchanged leaves the store with exactly one entity for the
\* id, and the store after the second application equals the store after the first.
C12_UpsertIdempotent == []C12_OneEntity /\ [][C12_SecondLeavesStore]_vars

\* an event has been applied a second time to an unchanged file and handled
C12_AppliedTwice ==
    \E t \in Handled : Latest(t) /\ SecondApplication(t) /\ steps_cache[IdOf(t)] = timers[t].step

\* the timers noted as pending when cancel_all_pending was called have not
\* invoked the downstream callback
C13_NoneCalled == \A t \in stop.pending : ~timers[t].called

\* the step in which cancel_all_pending returns leaves the map empty
C13_MapEmptied ==
    (stop.pc = "clear" /\ stop'.pc # "clear") => \A p \in Paths : pending_timers'[p] = 0

\* C13: cancellation on stop. A timer that is scheduled and has not fired when
\* cancel_all_pending is called never invokes the downstream callback, and the
\* pending-timer map is empty when cancel_all_pending returns.
C13_PendingNeverFire == []C13_NoneCalled /\ [][C13_MapEmptied]_vars

\* stop has returned: the service is not watching and the main thread is outside stop
Stopped == ~watching /\ stop.pc = "idle"

\* a step taken after stop has returned invokes neither the file-event callback
\* nor the step-update callback
C14_NoCallback ==
    Stopped /\ Stopped'
    => /\ \A t \in TimerIds : timers'[t].called = timers[t].called
       /\ loop_queue' = loop_queue

\* C14: quiescence after stop. Once stop_watching has returned, no file-event
\* callback and no step-update callback is invoked until a start is called again,
\* whatever the observer thread and the Timer threads were doing during the stop.
C14_QuietAfterStop == [][C14_NoCallback]_vars

\* a call of start_watching made while watching raises RuntimeError and changes
\* nothing: flag, store, handler and observer are as they were
C15_Rejected ==
    (watching /\ api' # api /\ api'.call = "start_watching")
    => /\ api'.raised = "RuntimeError"
       /\ UNCHANGED <<fsVars, debVars, steps_cache, watching, stop, loop_queue, hubVars>>

\* C15: double start. start_watching called while the service is watching raises
\* the already-watching error and changes nothing: the service stays watching, the
\* callback and the store are unchanged, the file watcher is not started again.
C15_DoubleStart == [](api.raised = "RuntimeError" => watching \/ stop.pc # "idle") /\ [][C15_Rejected]_vars

\* a start_watching call was rejected while the service watches with a timer pending
C15_RejectedWhileWatching ==
    /\ api.call = "start_watching" /\ api.raised = "RuntimeError"
    /\ watching
    /\ \E t \in TimerIds : timers[t].pc = "waiting"

\* a call of stop_watching made while not watching raises nothing and changes
\* nothing: the file watcher's stop is not entered
C16_NoOp ==
    (~watching /\ stop.pc = "idle" /\ api' # api /\ api'.call = "stop_watching")
    => /\ api'.raised = "none"
       /\ UNCHANGED <<fsVars, debVars, steps_cache, watching, stop, loop_queue, hubVars>>

\* C16: stop when stopped. stop_watching called while the service is not watching
\* is a no-op: it raises nothing, does not call the file watcher's stop and leaves
\* the watching flag, the callback and the store unchanged.
C16_StopWhenStopped == [][C16_NoOp]_vars

\* stop_watching was called on a service that has never watched
C16_StoppedNeverStarted ==
    /\ api.call = "stop_watching" /\ api.raised = "none"
    /\ folder # "dir"
    /\ ~watching /\ stop.pc = "idle"

\* a start_watching call made while not watching raises when the watched path is
\* missing or no directory, and then leaves the service not watching, with no
\* handler and no observer made; with the folder in place it starts the service
C17_StartOutcome ==
    (~watching /\ api' # api /\ api'.call = "start_watching")
    => IF folder = "dir"
       THEN api'.raised = "none" /\ watching'
       ELSE /\ api'.raised = (IF folder = "missing" THEN "FileNotFoundError"
                                                     ELSE "NotADirectoryError")
            /\ ~watching'
            /\ UNCHANGED <<debVars, stop>>

\* C17: watch source unavailable. With the watched folder missing or no directory
\* start raises and the service does not enter watching (no observer, no handler),
\* so a later start_watching is not rejected as already watching.
C17_SourceUnavailable ==
    /\ [](api.raised \in {"FileNotFoundError", "NotADirectoryError"} => ~watching)
    /\ [][C17_StartOutcome]_vars

\* start_watching has raised for a missing folder and the service is not watching
C17_StartRaised ==
    /\ api.call = "start_watching" /\ api.raised = "FileNotFoundError"
    /\ folder = "missing"
    /\ ~watching

\* the final path segment with one trailing ".json" removed
C18_Remainder(path) ==
    LET segment == basename(path)
    IN  IF EndsWithJson(segment) THEN SubSeq(segment, 1, Len(segment) - 5) ELSE segment

\* exactly two digits, a hyphen, two digits
C18_TwoDigitGroups(cs) ==
    /\ Len(cs) = 5
    /\ cs[1] \in Digits /\ cs[2] \in Digits /\ cs[3] = "-" /\ cs[4] \in Digits /\ cs[5] \in Digits

\* C18: path resolution. _extract_task_id_from_path returns the final path segment
\* with one trailing ".json" removed when that remainder is exactly two digits, a
\* hyphen, two digits, and None for every other path.
C18_PathResolution ==
    (examined.fn = "_extract_task_id_from_path" /\ examined.done)
    => examined.ret = IF C18_TwoDigitGroups(C18_Remainder(examined.arg))
                      THEN C18_Remainder(examined.arg)
                      ELSE <<>>

\* a file whose content is a step: an object with a task id, a status and the
\* other required fields
C19_ValidMember(content) ==
    /\ content.json = "object"
    /\ content.task_id = "01-01"
    /\ content.validation \in StepStatus \cup NoStatus
    /\ content.phase = "present"

\* the valid members of a folder, in order
RECURSIVE C19_ValidMembers(_)
C19_ValidMembers(contents) ==
    IF contents = <<>> THEN <<>>
    ELSE (IF C19_ValidMember(Head(contents))
          THEN <<[task_id |-> Head(contents).task_id,
                  status |-> IF Head(contents).validation \in NoStatus
                             THEN "pending" ELSE Head(contents).validation]>>
          ELSE <<>>) \o C19_ValidMembers(Tail(contents))

\* C19: the entity source never raises. For every kind of file content
\* _read_step_file returns None instead of raising, and get_all and refresh
\* return the valid members and omit the failing ones without failing as a whole.
C19_NeverRaises ==
    (examined.fn \in RepoCalls /\ examined.done)
    => /\ examined.ret.raised = "none"
       /\ LET valid == C19_ValidMembers(examined.arg)
          IN  CASE examined.fn = "get_all" -> examined.ret.value = valid
                [] examined.fn = "_read_step_file" ->
                       examined.ret.value = {valid[i] : i \in 1..Len(valid)}
                [] OTHER -> examined.ret.value =
                       (IF valid = <<>> THEN {} ELSE {valid[1]})

\* C20: no replay of history. After a client's init snapshot is taken the client
\* receives update and remove messages only for the store changes made after the
\* snapshot, never for a change whose result the snapshot already contains.
C20_NoReplay ==
    \A c \in Clients : \A i \in Deltas(c) : sent[c][i].by > ws[c].seen

\* what a client makes of a message: init replaces its view, update puts the
\* step under its id, remove drops the id
C21_Apply(view, msg) ==
    CASE msg.type = "init" ->
             [t \in TaskIds |-> IF \E s \in msg.steps : s.task_id = t
                                THEN CHOOSE s \in msg.steps : s.task_id = t
                                ELSE None]
      [] msg.type = "update" ->
             [view EXCEPT ![msg.task_id] = [task_id |-> msg.task_id, status |-> msg.status]]
      [] msg.type = "remove" -> [view EXCEPT ![msg.task_id] = None]
      [] OTHER -> view

\* the view of a client after the messages it has received, in their order
RECURSIVE C21_ViewAfter(_, _)
C21_ViewAfter(view, log) ==
    IF log = <<>> THEN view
    ELSE C21_ViewAfter(IF Head(log).st = "ok" THEN C21_Apply(view, Head(log).msg) ELSE view,
                       Tail(log))
C21_View(c) == C21_ViewAfter([t \in TaskIds |-> None], sent[c])

\* every change of the folder has been handled and every broadcast issued for
\* it has completed
C21_AllCompleted ==
    /\ Settled
    /\ loop_queue = <<>>
    /\ \A k \in PassIds : passes[k].pc = "done"
    /\ \A c \in Clients : \A i \in 1..Len(sent[c]) : sent[c][i].st # "wait"

\* the client is connected, has its snapshot and has stayed connected
C21_StaysConnected(c) == ws[c].alive /\ ws[c].pc = "open"

\* C21: the client view is a valid sequential history. For every client that
\* stays connected, the init snapshot with the update and remove messages applied
\* in the order received equals the current store once all issued broadcasts have
\* completed: no store transition made after the snapshot is missing.
C21_ViewIsStore ==
    C21_AllCompleted =>
        \A c \in Clients : C21_StaysConnected(c) => C21_View(c) = steps_cache

\* start_watching has made the first load (lines 110-111), and no endpoint's
\* get_all_steps is inside _load_steps_into_cache, scanning the repository again
C22_NoSecondScan == watching => \A c \in Clients : ws[c].pc # "loading"

\* a step of an endpoint's get_all_steps leaves the store as it is
C22_StoreUntouched ==
    (watching /\ \E c \in Clients : ws[c].pc \in {"accepting", "loading"} /\ ws'[c].pc # ws[c].pc)
    => steps_cache' = steps_cache

\* C22: single lazy load. The repository is scanned only by the first
\* get_all_steps or start_watching; every later get_all_steps returns the store
\* without scanning the repository again and without modifying the store, also
\* when the store holds no entities.
C22_SingleLazyLoad == []C22_NoSecondScan /\ [][C22_StoreUntouched]_vars

\* the list without the websocket, the others in their order
C23_Without(list, websocket) == SelectSeq(list, LAMBDA x : x # websocket)

\* C23: unregister is idempotent. disconnect(ws) removes ws from the active
\* connections if it is there and changes nothing if it is not; a second call
\* leaves what the first left; no other connection is ever removed.
C23_UnregisterIdempotent ==
    (examined.fn = "disconnect" /\ examined.done)
    => \A n \in 1..Len(examined.ret) :
          examined.ret[n] = C23_Without(examined.arg[1], examined.arg[2])

\* disconnect was called twice for a websocket of a list with others in it
C23_CalledTwice ==
    /\ examined.fn = "disconnect"
    /\ Len(examined.ret) = 2
    /\ Len(examined.arg[1]) = MaxConnections
    /\ examined.arg[2] = examined.arg[1][2]

\* the init send of client c raised
C24_InitSendFailed(c) ==
    \E i \in 1..Len(sent[c]) : sent[c][i].by = 0 /\ sent[c][i].st = "fail"

\* the exception reaches the caller: the endpoint does not go on to its receive
\* loop after a failed init send, and is in its except clause or past it
C24_Propagated ==
    \A c \in Clients :
        /\ C24_InitSendFailed(c) => ws[c].pc \in {"raised", "closed"}
        /\ ws[c].pc = "raised" => C24_InitSendFailed(c)

\* the step in which send_personal ends leaves the active connections as they are
C24_SetUnchanged ==
    \A c \in Clients :
        (ws[c].pc = "init_send" /\ ws'[c].pc # "init_send")
        => active_connections' = active_connections

\* C24: snapshot send failure. When the send inside send_personal raises, the
\* exception is propagated to the caller, and send_personal leaves the active
\* connections unchanged: it does not unregister the failing client.
C24_SendPersonalRaises == []C24_Propagated /\ [][C24_SetUnchanged]_vars

\* send_personal has raised for a client that is registered beside another one
C24_RaisedWhileRegistered ==
    \E c \in Clients :
        /\ ws[c].pc = "raised"
        /\ InList(active_connections, c)
        /\ Len(active_connections) > 1

\* the status of the Step a call has returned
C25_Status(ret) == (CHOOSE step \in ret.value : TRUE).status

\* the object is a step but for its status
C25_OtherwiseValid(data) ==
    data.task_id = "01-01" /\ data.phase = "present" /\ data.validation # "list"

\* C25: status parsing. Step.from_dict yields status pending when validation or
\* validation.status is missing, yields the named status when it is one of the
\* five statuses, and for any other value raises a validation error instead of
\* substituting a default.
C25_StatusParsing ==
    (examined.fn = "from_dict" /\ examined.done)
    => LET data == examined.arg
           ret == examined.ret
       IN  /\ data.validation \in OtherStatus => ret.raised = "ValueError"
           /\ C25_OtherwiseValid(data) /\ data.validation \notin OtherStatus
              => ret.raised = "none"
           /\ ret.raised = "none"
              => C25_Status(ret) = IF data.validation \in NoStatus
                                   THEN "pending" ELSE data.validation

\* from_dict has returned a step for an object that has no validation.status
C25_DefaultedToPending ==
    /\ examined.fn = "from_dict" /\ examined.done
    /\ examined.arg.validation = "no_status"
    /\ examined.ret.raised = "none"

\* two two-digit groups separated by one hyphen
C26_Canonical(cs) ==
    /\ Len(cs) = 5
    /\ cs[1] \in Digits /\ cs[2] \in Digits /\ cs[3] = "-" /\ cs[4] \in Digits /\ cs[5] \in Digits

\* C26: entity id invariant. Every Step that is constructed has an id of two
\* two-digit zero-padded integer groups separated by one hyphen; construction
\* fails for any other id.
C26_IdInvariant ==
    (examined.fn = "_parse_version_from_task_id" /\ examined.done)
    => (examined.ret = "none" <=> C26_Canonical(examined.arg))

\* the path whose raw notification the observer thread handles in this step
C27_Handled == IF obs.pc = "idle" THEN obs'.path ELSE obs.path

\* a step of the observer thread leaves every other path's map entry and timers
\* as they are, and creates no timer for another path
C27_Frame ==
    obs' # obs =>
        \A p \in Paths \ {C27_Handled} :
            /\ pending_timers'[p] = pending_timers[p]
            /\ \A t \in 1..Len(timers') :
                  timers'[t].path = p => t <= Len(timers) /\ timers'[t] = timers[t]

\* the paths that have had notifications, all of them in one burst
C27_Notified == {timers[t].path : t \in TimerIds}
C27_OneBurstEach ==
    \A t \in TimerIds : \A u \in TimerIds :
        timers[t].path = timers[u].path => timers[t].burst = timers[u].burst

\* once the bursts are through, each notified path has had one callback
C27_OnePerPath ==
    (C27_OneBurstEach /\ \A b \in BurstIds : BurstSettled(b))
    => \A p \in C27_Notified :
          Cardinality({t \in TimerIds : timers[t].path = p /\ timers[t].called}) = 1

\* C27: independent debounce per path. A raw notification for one path cancels,
\* restarts or replaces only that path's timer and leaves every other path's
\* pending timer, its kind and its firing unchanged, so bursts on k distinct
\* paths that are through have led to exactly k callbacks, one per path.
C27_IndependentDebounce == [][C27_Frame]_vars /\ []C27_OnePerPath


\* two paths have had one burst each, the first path's notifications on both
\* sides of the second path's, and each burst has called back once
C27_InterleavedBursts ==
    /\ Len(timers) = 3
    /\ timers[1].path = timers[3].path /\ timers[1].burst = timers[3].burst
    /\ timers[2].path # timers[1].path
    /\ timers[1].pc = "cancelled" /\ ~timers[1].called
    /\ timers[2].pc = "done" /\ timers[2].called
    /\ timers[3].pc = "done" /\ timers[3].called

\* the path names a file, not a directory, and its name ends in .json
C28_JsonFile(path) ==
    LET cs == Chars(path)
    IN  /\ path \notin SubDirectories
        /\ Len(cs) > 5
        /\ SubSeq(cs, Len(cs) - 4, Len(cs)) = <<".", "j", "s", "o", "n">>

\* the observer thread is inside _schedule_callback
C28_Scheduling == obs.pc \in {"cancel_check", "cancel_call", "cancel_del", "start_timer"}

\* _schedule_callback runs, and timers exist, only for JSON files
C28_OnlyJsonFiles ==
    /\ C28_Scheduling => C28_JsonFile(obs.path)
    /\ \A t \in TimerIds : C28_JsonFile(timers[t].path)

\* the handler of a notification for anything else returns and leaves the
\* timers and the map as they are
C28_Dropped ==
    (obs.pc = "filter" /\ ~C28_JsonFile(obs.path) /\ obs' # obs)
    => obs' = IdleObserver /\ timers' = timers /\ pending_timers' = pending_timers

\* C28: notification filtering. A raw notification that targets a directory or a
\* path whose extension is not .json never schedules, cancels or restarts a
\* debounce timer and never leads to a callback; every timer that exists
\* belongs to a non-directory .json path.
C28_NotificationFiltering == []C28_OnlyJsonFiles /\ [][C28_Dropped]_vars

\* the handler is entered with a notification for a directory named like a JSON
\* file while a timer is waiting
C28_DroppedWhilePending ==
    /\ obs.pc = "filter" /\ obs.path = "/w/sub.json"
    /\ \E t \in TimerIds : timers[t].pc = "waiting"

\* a step during the iteration of a broadcast pass that has called send_text and
\* has not left its for loop leaves the active list as it is
C29_ListKept ==
    \A k \in PassIds :
        (passes[k].pc = "sending" /\ passes'[k].pc = "sending")
        => active_connections' = active_connections

\* C29: no mutation of the active set during a broadcast pass. Between the
\* first and the last send of a broadcast pass the active connection list is
\* neither appended to nor removed from, by that pass, by an overlapping pass,
\* by connect or by disconnect; failing clients are removed after the iteration.
C29_NoMutationDuringPass == [][C29_ListKept]_vars

\* the send_text calls pass k made on connection c
C30_SendsOf(k, c) == {i \in 1..Len(sent[c]) : sent[c][i].by = k}

\* C30: complete single-encoding delivery. A broadcast pass sends the one text
\* it encoded, and once it has returned it has called send_text exactly once on
\* every connection that was in the active list when it began and still is,
\* and on no connection twice, also when others have connected, disconnected or
\* failed during the pass.
C30_CompleteDelivery ==
    \A k \in PassIds : \A c \in Clients :
        /\ \A i \in C30_SendsOf(k, c) : sent[c][i].msg = passes[k].msg
        /\ Cardinality(C30_SendsOf(k, c)) <= 1
        /\ (/\ passes[k].pc = "done" /\ passes[k].msg # NoMessage
            /\ InList(passes[k].registered, c) /\ InList(active_connections, c))
           => Cardinality(C30_SendsOf(k, c)) = 1

\* the create and modify events whose path resolved and whose refresh gave None
C31_RefreshFailed(t) ==
    /\ timers[t].kind \in {CREATED, MODIFIED}
    /\ timers[t].task_id # "None"
    /\ timers[t].pc \in {"h_notify", "done"}
    /\ timers[t].step = None

\* the step update of a failed refresh has no message
C31_NoMessage == \A t \in Handled : C31_RefreshFailed(t) => MessageOf(t) = NoMessage

\* the steps of the handler of a refresh that fails, from the refresh to the
\* handler's end, leave the store as it is
C31_StoreKept ==
    \A t \in TimerIds :
        (/\ timers[t].pc \in {"h_refresh", "h_notify"}
         /\ timers'[t] # timers[t]
         /\ timers[t].kind \in {CREATED, MODIFIED}
         /\ timers'[t].step = None)
        => steps_cache' = steps_cache

\* C31: refresh failure. For a create or modify event whose id resolves but
\* whose repository refresh returns None, no message is broadcast and the store
\* is unchanged: an entity stored under that id before is kept as it was.
C31_RefreshFailure == []C31_NoMessage /\ [][C31_StoreKept]_vars

\* a file whose entity is in the store was overwritten with undecodable content:
\* the modify's refresh failed and the entity is still in the store
C31_FailedOverStored ==
    \E t \in Handled :
        /\ C31_RefreshFailed(t)
        /\ timers[t].kind = MODIFIED
        /\ files[timers[t].path] = Malformed
        /\ steps_cache[timers[t].task_id] # None

\* the handler of timer t has resolved its path, to no id
C32_Unresolved(t) ==
    /\ timers[t].called
    /\ timers[t].task_id = "None"

\* a handler whose path did not resolve has returned: it is at no later statement
C32_Returned == \A t \in TimerIds : C32_Unresolved(t) => timers[t].pc = "done"

\* the step in which a path resolves to no id changes neither the store nor the
\* step updates handed to the loop, and no later step of that handler exists
C32_NothingDone ==
    \A t \in TimerIds :
        (timers'[t] # timers[t] /\ timers'[t].called /\ timers'[t].task_id = "None")
        => /\ timers[t].pc = "callback"
           /\ steps_cache' = steps_cache
           /\ loop_queue' = loop_queue
           /\ passes' = passes /\ sent' = sent

\* C32: unresolvable path. For a logical event of any kind whose path does not
\* resolve to an id, _handle_file_event does not read the repository, does not
\* change the store, does not invoke the step-update callback and produces no
\* broadcast.
C32_UnresolvablePath == []C32_Returned /\ [][C32_NothingDone]_vars

\* an event for a JSON file whose name is no task id has been handled, and an
\* event for a step file after it has had its step update
C32_SkippedThenUpdate ==
    /\ Len(timers) = 2
    /\ timers[1].path = "/w/sub.json" /\ C32_Unresolved(1) /\ timers[1].pc = "done"
    /\ timers[2].pc = "done" /\ timers[2].step # None
    /\ Len(passes) = 1

\* C33: create and modify are equivalent. For every path and file content a
\* created event and a modified event produce the same resulting store and the
\* same broadcast message, an update with the same entity, or both produce none.
C33_CreateEqualsModify ==
    (examined.fn = "_handle_file_event" /\ Len(examined.ret) = 2)
    => /\ examined.ret[1] = examined.ret[2]
       /\ \A o \in examined.ret[1] :
             \/ o.msg = NoMessage
             \/ /\ o.msg.type = "update"
                /\ o.cache[o.msg.task_id] # None
                /\ o.msg = UpdateMessage(o.cache[o.msg.task_id])

\* both events replaced the stored entity by the file's and have an update for it
C33_BothUpsert ==
    /\ examined.fn = "_handle_file_event" /\ Len(examined.ret) = 2
    /\ \E o \in examined.ret[2] :
          /\ o.msg.type = "update"
          /\ o.cache # examined.arg.cache
          /\ examined.arg.cache[o.msg.task_id] # None

\* a timer that is scheduled and has neither fired nor been cancelled is the
\* entry of its path in the map: so no path has two of them
C34_LiveTimerInMap ==
    \A t \in TimerIds : timers[t].pc = "waiting" => pending_timers[timers[t].path] = t

\* the entry a fired timer deletes is its own
C34_OwnEntry ==
    \A t \in TimerIds :
        (timers[t].pc = "fire_del" /\ timers'[t].pc = "callback")
        => pending_timers[timers[t].path] = t

\* C34: debouncer bookkeeping invariant. Under every interleaving of the
\* notification thread with the timer threads the pending-timer map holds for
\* each path the one timer that is scheduled and has not fired or been
\* cancelled: never a live timer for a path absent from the map, never two live
\* timers for one path, and a fired timer removes only its own entry.
C34_Bookkeeping == []C34_LiveTimerInMap /\ [][C34_OwnEntry]_vars

\* a start_watching that succeeds after a stop_watching leaves the store
\* holding the entities of the folder as it is at that start
C35_Rescanned ==
    (api.call = "stop_watching" /\ ~watching /\ watching')
    => steps_cache' \in load_steps(get_all(files'))

\* C35: re-scan on restart. After stop_watching followed by a successful
\* start_watching the store reflects the folder's contents as scanned at that
\* start: a change that was mid-debounce at stop time, or made while stopped, is
\* in the store without the file having to change again.
C35_RescanOnRestart == [][C35_Rescanned]_vars

\* the number of send_text calls made on connection c by broadcast passes
C36_Broadcasts(log, c) == Cardinality({i \in 1..Len(log[c]) : log[c][i].by # 0})

\* a connection is in the active list at most once, and not at all while it is
\* being accepted or after its endpoint has ended
C36_InSetWhileOpen ==
    \A c \in Clients :
        /\ Cardinality({i \in 1..Len(active_connections) : active_connections[i] = c}) <= 1
        /\ ws[c].pc \in {"accepting", "closed"} => ~InList(active_connections, c)

\* a connection enters the list only as its accept completes, which happens
\* once; its end is final; a broadcast calls send_text only on a connection that
\* is in the list
C36_Transitions ==
    \A c \in Clients :
        /\ (~InList(active_connections, c) /\ InList(active_connections', c))
           => ws[c].pc = "accepting"
        /\ ws[c].pc # "accepting" => ws'[c].pc # "accepting"
        /\ ws[c].pc = "closed" => ws'[c].pc = "closed"
        /\ C36_Broadcasts(sent', c) > C36_Broadcasts(sent, c) => InList(active_connections, c)

\* C36: per-channel state machine. Each connection goes Connecting, Open (in
\* the active set), Closed, and Closed is terminal: a connection is in the
\* active set at most once at any time, and once removed, by disconnect or by a
\* failed broadcast send, it is never added back and never sent another
\* broadcast message.
C36_ChannelStateMachine == []C36_InSetWhileOpen /\ [][C36_Transitions]_vars

\* a connection was removed after a broadcast send on it failed, and the pass
\* of a step update issued after that has returned without a send on it
C36_RemovedThenBroadcast ==
    /\ Len(passes) = 2 /\ passes[1].pc = "done" /\ passes[2].pc = "done"
    /\ passes[2].msg # NoMessage /\ passes[2].registered = <<>>
    /\ \E c \in Clients :
          /\ SentBy(1, c, "fail") /\ ~InList(active_connections, c)
          /\ C36_Broadcasts(sent, c) = 1

\* C37: store key invariant. Every entry of the store is keyed by the id of the
\* entity it holds, after the initial load and after any sequence of create,
\* modify and delete events, also when a file's name and its task_id field
\* disagree.
C37_KeyedById ==
    \A k \in TaskIds : steps_cache[k] # None => steps_cache[k].task_id = k

\* the event of a path with no file has stored, under the path's id, the entity
\* that the other file holds under that id
C37_StoredFromOtherFile ==
    \E t \in TimerIds :
        /\ timers[t].pc = "done" /\ timers[t].kind = CREATED
        /\ timers[t].path = "/w/01-02.json"
        /\ files["/w/01-02.json"] = Absent
        /\ files["/w/01-01.json"].task_id = "01-02"
        /\ timers[t].step # None
        /\ steps_cache["01-02"] = timers[t].step

\* a handler of a create or modify event has stored an entity under id i
C38_Upserted(i) ==
    \E t \in TimerIds :
        /\ timers[t].kind \in {CREATED, MODIFIED}
        /\ timers[t].task_id = i
        /\ timers[t].step # None
        /\ timers[t].pc \in {"h_notify", "done"}

\* the entry of an id a handler has stored under leaves the store only by the
\* pop of a delete event for that id
C38_KeptUntilDelete ==
    \A i \in TaskIds :
        (C38_Upserted(i) /\ steps_cache[i] # None /\ steps_cache'[i] = None)
        => \E t \in TimerIds :
              /\ timers[t].kind = DELETED /\ timers[t].task_id = i
              /\ timers[t].pc = "h_pop" /\ timers'[t].pc # "h_pop"

\* C38: no lost upsert. Once _handle_file_event has stored an entity under an
\* id, the store keeps an entry for the id until a later delete event for it is
\* processed, under every interleaving with get_all_steps and
\* _load_steps_into_cache running in the connection-handling context.
C38_NoLostUpsert == [][C38_KeptUntilDelete]_vars

\* the store holds exactly the valid entities that are in the folder
C39_InSync == steps_cache \in load_steps(get_all(files))

\* C39: eventual consistency while watching. If the service is watching and the
\* folder stops changing, then eventually, after all debounce timers have fired
\* and been processed, the store contains exactly the valid entities currently
\* in the folder and stays so, also for files that became invalid.
C39_EventuallyInSync == <>[](watching /\ C39_InSync)

====
